---- MODULE Spec2Model ----
(***************************************************************************)
(* A model of the ApexCoin node: the ledger state (package ledger), the    *)
(* consensus engine (package consensus) and the node's gossip handlers     *)
(* (package main).                                                         *)
(***************************************************************************)
EXTENDS Integers, Sequences, FiniteSets, TLC

(***************************************************************************)
(* Bounds of the model.                                                    *)
(***************************************************************************)
\* Blocks are drawn with header heights 0..MaxHeight+1.
MaxHeight == 2
\* The most transactions the pending pool is let grow to.
MaxPool == 2
\* The threads that call the engine and the ledger at the same time.
MaxThreads == 2
\* Width of the model's unsigned machine word, standing for Go's uint64.
WordBits == 10

Uint64Mod == 2 ^ WordBits
MaxUint64 == Uint64Mod - 1

\* uint64 addition (wraps around).
AddU64(a, b) == (a + b) % Uint64Mod

(***************************************************************************)
(* Values.  PublicKey values (key images, view keys, spend keys) share one *)
(* domain, as in types.PublicKey.                                          *)
(***************************************************************************)
PublicKeys == {1, 2}
KeyImages == PublicKeys
Amounts == {1, MaxUint64}
Fees == {0, 2}
StealthAddrs == {[viewKey |-> 1, spendKey |-> 2]}
Heights == 0 .. (MaxHeight + 1)
BlockHashes == {1, 2}
Rounds == {0, 1}
Stakes == {34, 66, 100}
\* Block timestamps, and the node's clock (seconds); MaxClockDrift is the 60 of
\* "block.Header.Timestamp > now+60".
Timestamps == {0, 61}
Now == 0
MaxClockDrift == 60

\* All sequences over S of length lo..hi.
SeqsOf(S, lo, hi) == UNION {[1 .. n -> S] : n \in lo .. hi}

TxInputs == [keyImage : KeyImages, amount : Amounts]
TxOutputs == [amount : Amounts, stealthAddr : StealthAddrs]
\* An optional *RingSignature: <<>> is nil, <<sig>> a signature.
RingSignatures == {<<>>, <<[keyImage |-> 1]>>}

Transactions ==
    [inputs : SeqsOf(TxInputs, 0, 2), outputs : SeqsOf(TxOutputs, 0, 1),
     fee : Fees, ringSignature : RingSignatures]

\* The transactions blocks are drawn from: applyTransaction reads the key
\* images and the outputs only, so one transaction stands for each choice of
\* those.
BlockTransactions ==
    {tx \in Transactions :
        /\ tx.fee = 0
        /\ tx.ringSignature = <<[keyImage |-> 1]>>
        /\ \A i \in 1 .. Len(tx.inputs) : tx.inputs[i].amount = 1
        /\ \A i \in 1 .. Len(tx.outputs) : tx.outputs[i].amount = 1}

\* The blocks of the ledger specification: transactions of at most one input.
LedgerBlocks ==
    [header : [height : Heights],
     transactions : SeqsOf({tx \in BlockTransactions : Len(tx.inputs) <= 1}, 0, 2)]

\* A ValidatorState as the genesis file or a Bond gives it.
NewValidatorState(pubKey, stake, joined) ==
    [publicKey |-> pubKey, stakedAmount |-> stake, active |-> TRUE,
     joinedHeight |-> joined, unbondingUntil |-> 0, slashCount |-> 0]

\* GenesisConfig.InitialValidators: one or two validators, in key order.
GenesisValidators ==
    {<<NewValidatorState(1, st, 0)>> : st \in Stakes}
    \cup {<<NewValidatorState(1, s1, 0), NewValidatorState(2, s2, 0)>> :
            s1 \in Stakes, s2 \in Stakes}

\* An Ed25519 signature: who signed, and what.
Signatures == [signer : PublicKeys, hash : BlockHashes]
\* types.ValidatorSignature
Votes == [validator : PublicKeys, signature : Signatures, round : Rounds]
\* The amounts of a Bond.
BondAmounts == {0, 34, 66}
\* types.StakingTx; the signature names its signer, 0 for the zero Signature
\* of a transaction that was never signed.
StakingTxs ==
    [type : {"bond"}, validator : PublicKeys, amount : BondAmounts,
     signature : [signer : PublicKeys \cup {0}]]
    \cup [type : {"unbond"}, validator : PublicKeys, amount : {0},
          signature : [signer : PublicKeys \cup {0}]]

Ok == "ok"
ErrValidatorExists == "validator already exists"
ErrValidatorNotFound == "validator not found"
ErrUnknownValidator == "unknown validator"
ErrInactiveValidator == "inactive validator"
ErrInvalidSignature == "invalid signature"
ErrDoubleVote == "double-vote detected"
ErrInsufficientVotes == "insufficient validator votes for finality"
ErrNoValidators == "no validators in set"
ErrInvalidPrevHash == "invalid previous block hash"
ErrTimestamp == "block timestamp too far in future"
ErrInvalidProposer == "invalid proposer for this round"
ErrKeyNotFound == "Key not found"
ErrGetPrevious == "failed to get previous block"
ErrInvalidBlock == "invalid block"
ErrApplyBlock == "failed to apply block"
ErrSaveBlock == "failed to save block"
ErrUpdateHeight == "failed to update height"
ErrWrite == "write failed"
ErrCollectVote == "failed to collect vote"
ErrNotValidator == "not a validator"
ErrInvalidTransaction == "invalid transaction"
\* Not an error value: handleMessages drops a message the node published.
SkippedOwn == "skipped: from self"
ErrTxnSet == "txn.Set failed"
ErrCommit == "commit failed"
ErrNotOurOutput == "output does not belong to this wallet"
\* Not an error value: the goroutine panics (integer divide by zero).
Panic == "panic"
\* Not an error value: the call has not returned and cannot.
Blocked == "blocked"
ErrInvalidHeight == "invalid block height"
ErrDoubleSpend == "double-spend detected: key image already spent"
ErrKeyImageSpent == "key image already spent"
ErrMissingRingSig == "missing ring signature"
ErrUnbalanced == "transaction amounts do not balance"

VARIABLES
    utxos,            \* State.utxos: UTXO key -> UTXO
    spentKeyImages,   \* State.spentKeyImages: the keys mapped to true
    validators,       \* State.validators: PublicKey -> *ValidatorState (0: absent)
    valCells,         \* the ValidatorState records the pointers refer to
    height,           \* State.height
    validatorSet,     \* Engine.validatorSet: pointers to ValidatorState records
    totalStake,       \* Engine.totalStake
    votes,            \* Engine.votes: PublicKey -> <<>> (no entry) or <<vote>>
    currentRound,     \* Engine.currentRound
    mu,               \* Engine.mu
    dbByHeight,       \* Database: the "b:<height>" keys -> block
    dbByHash,         \* Database: the "h:<header hash>" keys -> block
    dbLatestHeight,   \* Database: the "latest_height" key, <<>> while absent
    txPool,           \* Node.txPool
    validatorPub,     \* Node.validatorPub / Engine.validatorPub (0: not a validator)
    lastBroadcast,    \* the block and vote last handed to the network, <<>> before
    walletKeys,       \* a WalletKeys: the private keys of its view and spend key pairs
    stealthOutput,    \* the TxOutput made for the wallet's address, <<>> before
    txn,              \* the badger.Txn of the SaveBlock call in progress
    goroutines,       \* where the transaction handler and the proposer ticker are, and their locals
    poolHistory,      \* history: the transactions handleTransaction accepted, and those of proposed blocks
    stateMu,          \* State.mu
    threads,          \* the threads inside engine and ledger operations: operation, position, mutexes held
    ret,              \* the last call: its name, its result and what it was given
    arg,              \* the last call's argument, where a specification records it
    spentCount,       \* history: key image -> how many transactions of applied blocks spent it
    votedFor          \* history: the votes collected, as <<validator, header hash>> or <<validator, round, hash>>

ledgerVars == <<utxos, spentKeyImages, validators, valCells, height>>
engineVars == <<validatorSet, totalStake, votes, currentRound, mu>>
dbVars == <<dbByHeight, dbByHash, dbLatestHeight>>
nodeVars == <<txPool, validatorPub, lastBroadcast>>
walletVars == <<walletKeys, stealthOutput>>
lockVars == <<stateMu, threads>>
poolVars == <<goroutines, poolHistory, lockVars>>
vars ==
    <<ledgerVars, engineVars, dbVars, nodeVars, walletVars, txn, poolVars, ret, arg,
      spentCount, votedFor>>

\* The State object as one value.
LedgerState ==
    [utxos |-> utxos, spentKeyImages |-> spentKeyImages, validators |-> validators,
     valCells |-> valCells, height |-> height]

SetLedger(s) ==
    /\ utxos' = s.utxos
    /\ spentKeyImages' = s.spentKeyImages
    /\ validators' = s.validators
    /\ valCells' = s.valCells
    /\ height' = s.height

(***************************************************************************)
(* package types                                                           *)
(***************************************************************************)
\* Transaction.Hash: SHA-256 of the key images followed by every output's
\* view key and spend key.  The digest is represented by its preimage.
TxHash(tx) ==
    [i \in 1 .. Len(tx.inputs) |-> tx.inputs[i].keyImage]
    \o [j \in 1 .. 2 * Len(tx.outputs) |->
          IF j % 2 = 1 THEN tx.outputs[(j + 1) \div 2].stealthAddr.viewKey
                       ELSE tx.outputs[j \div 2].stealthAddr.spendKey]

\* The zero types.Hash.
ZeroHash == <<>>

\* BlockHeader.Hash: SHA-256 of the previous block's hash, the transaction
\* root, the state root and the proposer; height, timestamp and round are not
\* hashed.  The digest is represented by its preimage.
HeaderHash(header) ==
    <<header.prevBlockHash, header.txRoot, header.stateRoot, header.proposer>>

(***************************************************************************)
(* package ledger                                                          *)
(***************************************************************************)
makeUTXOKey(txHash, index) == <<txHash, index>>

InputKeyImages(tx) == {tx.inputs[i].keyImage : i \in 1 .. Len(tx.inputs)}

\* The UTXO map with the outputs of tx added at blockHeight.
WithOutputs(u, tx, blockHeight) ==
    LET txHash == TxHash(tx)
        newKeys == {makeUTXOKey(txHash, i - 1) : i \in 1 .. Len(tx.outputs)}
    IN  [k \in DOMAIN u \cup newKeys |->
           IF k \in newKeys
           THEN [txHash |-> txHash, outputIndex |-> k[2],
                 output |-> tx.outputs[k[2] + 1],
                 blockHeight |-> blockHeight, spent |-> FALSE]
           ELSE u[k]]

\* applyTransaction without the loop that marks the key images as spent.
applyTransaction_NoMark(s, tx, blockHeight) ==
    IF \E i \in 1 .. Len(tx.inputs) : tx.inputs[i].keyImage \in s.spentKeyImages
    THEN [state |-> s, err |-> ErrDoubleSpend]
    ELSE [state |-> [s EXCEPT !.utxos = WithOutputs(@, tx, blockHeight)], err |-> Ok]

\* State.applyTransaction
applyTransaction(s, tx, blockHeight) ==
    IF \E i \in 1 .. Len(tx.inputs) : tx.inputs[i].keyImage \in s.spentKeyImages
    THEN [state |-> s, err |-> ErrDoubleSpend]
    ELSE [state |-> [s EXCEPT !.spentKeyImages = @ \cup InputKeyImages(tx),
                              !.utxos = WithOutputs(@, tx, blockHeight)],
          err |-> Ok]

\* The loop of ApplyBlock over block.Transactions: it returns at the first
\* error, with what the earlier transactions wrote still in place.
RECURSIVE applyTransactions(_, _, _)
applyTransactions(s, txs, blockHeight) ==
    IF txs = <<>>
    THEN [state |-> s, err |-> Ok]
    ELSE LET r == applyTransaction(s, Head(txs), blockHeight)
         IN  IF r.err # Ok THEN r
             ELSE applyTransactions(r.state, Tail(txs), blockHeight)

\* ApplyBlock with the height check weakened to "later than the current one".
ApplyBlock_AnyLaterHeight(s, block) ==
    IF block.header.height <= s.height
    THEN [state |-> s, err |-> ErrInvalidHeight]
    ELSE LET r == applyTransactions(s, block.transactions, block.header.height)
         IN  IF r.err # Ok THEN r
             ELSE [state |-> [r.state EXCEPT !.height = block.header.height],
                   err |-> Ok]

\* State.ApplyBlock
ApplyBlock(s, block) ==
    IF block.header.height # AddU64(s.height, 1)
    THEN [state |-> s, err |-> ErrInvalidHeight]
    ELSE LET r == applyTransactions(s, block.transactions, block.header.height)
         IN  IF r.err # Ok THEN r
             ELSE [state |-> [r.state EXCEPT !.height = block.header.height],
                   err |-> Ok]

RECURSIVE SumU64(_, _)
\* The uint64 accumulation loops of ValidateTransaction.
SumU64(items, n) ==
    IF n = 0 THEN 0 ELSE AddU64(SumU64(items, n - 1), items[n].amount)

\* A ValidateTransaction that records the key images it has seen.
ValidateTransaction_MarksSpent(s, tx) ==
    [state |-> [s EXCEPT !.spentKeyImages = @ \cup InputKeyImages(tx)],
     err |-> IF tx.ringSignature = <<>> THEN ErrMissingRingSig ELSE Ok]

\* State.ValidateTransaction
ValidateTransaction(s, tx) ==
    LET inputSum == SumU64(tx.inputs, Len(tx.inputs))
        outputSum == SumU64(tx.outputs, Len(tx.outputs))
    IN  [state |-> s,
         err |-> IF \E i \in 1 .. Len(tx.inputs) :
                        tx.inputs[i].keyImage \in s.spentKeyImages
                 THEN ErrKeyImageSpent
                 ELSE IF tx.ringSignature = <<>> THEN ErrMissingRingSig
                 ELSE IF inputSum # AddU64(outputSum, tx.fee) THEN ErrUnbalanced
                 ELSE Ok]

(***************************************************************************)
(* package ledger: the validator registry.  State.validators maps a key to *)
(* a pointer; valCells holds the records pointed to (index 0: no entry).   *)
(***************************************************************************)
\* State.GetValidator: the pointer, 0 for "validator not found".
GetValidator(s, pubKey) == s.validators[pubKey]

\* State.AddValidator
AddValidator(s, pubKey, stake, joined) ==
    IF s.validators[pubKey] # 0
    THEN [state |-> s, err |-> ErrValidatorExists]
    ELSE [state |-> [s EXCEPT !.valCells = Append(@, NewValidatorState(pubKey, stake, joined)),
                              !.validators[pubKey] = Len(s.valCells) + 1],
          err |-> Ok]

\* State.UpdateValidator: the update function works on the record in place;
\* updated is what it makes of the record the key points to.
UpdateValidator(s, pubKey, updated) ==
    IF s.validators[pubKey] = 0
    THEN [state |-> s, err |-> ErrValidatorNotFound]
    ELSE [state |-> [s EXCEPT !.valCells[s.validators[pubKey]] = updated],
          err |-> Ok]

\* The orders in which a range over State.validators may visit its keys.
IterationOrders(s) ==
    LET keys == {k \in PublicKeys : s.validators[k] # 0}
    IN  {o \in [1 .. Cardinality(keys) -> keys] :
            \A i, j \in DOMAIN o : i # j => o[i] # o[j]}

\* State.GetActiveValidators, the map visited in the given order.
GetActiveValidators(s, order) ==
    SelectSeq([i \in 1 .. Len(order) |-> s.validators[order[i]]],
              LAMBDA ptr : s.valCells[ptr].active)

\* The loop of InitializeGenesis: "for _, val := range ..." has one variable
\* val for all iterations (go.mod: go 1.21), and every map entry is &val.
RECURSIVE genesisLoop(_, _, _, _)
genesisLoop(s, vals, i, val) ==
    IF i > Len(vals) THEN s
    ELSE genesisLoop([s EXCEPT !.valCells[val] = vals[i],
                               !.validators[vals[i].publicKey] = val],
                     vals, i + 1, val)

\* State.InitializeGenesis
InitializeGenesis(s, initialValidators) ==
    IF initialValidators = <<>>
    THEN [s EXCEPT !.height = 0]
    ELSE genesisLoop([s EXCEPT !.valCells = Append(@, initialValidators[1]),
                               !.height = 0],
                     initialValidators, 1, Len(s.valCells) + 1)

\* NewState
NewState ==
    [utxos |-> <<>>, spentKeyImages |-> {}, validators |-> [k \in PublicKeys |-> 0],
     valCells |-> <<>>, height |-> 0]

(***************************************************************************)
(* package consensus                                                       *)
(***************************************************************************)
SlashPercentage == 10
UnbondingPeriod == 100
\* "if val.SlashCount >= 3"
MaxSlashCount == 3

\* uint64 multiplication (wraps around).
MulU64(a, b) == (a * b) % Uint64Mod

\* The Engine object as one value.
EngineState ==
    [validatorSet |-> validatorSet, totalStake |-> totalStake, votes |-> votes,
     currentRound |-> currentRound, mu |-> mu]

SetEngine(e) ==
    /\ validatorSet' = e.validatorSet
    /\ totalStake' = e.totalStake
    /\ votes' = e.votes
    /\ currentRound' = e.currentRound
    /\ mu' = e.mu

\* sync.RWMutex: Lock waits for the writer and the readers to leave, RLock
\* for the writer and for the callers waiting in Lock; neither is reentrant.
CanLock(m) == ~m.writer /\ m.readers = 0
CanRLock(m) == ~m.writer /\ m.waiting = 0

\* ed25519.Verify(pubKey, msg, sig)
Verify(pubKey, msg, sig) == sig.signer = pubKey /\ sig.hash = msg

RECURSIVE sumStakes(_, _, _)
\* "total += val.StakedAmount" over the pointers ptrs[1..n].
sumStakes(s, ptrs, n) ==
    IF n = 0 THEN 0
    ELSE AddU64(sumStakes(s, ptrs, n - 1), s.valCells[ptrs[n]].stakedAmount)

\* Engine.UpdateValidatorSet
UpdateValidatorSet(e, s, order) ==
    LET set == GetActiveValidators(s, order)
    IN  [e EXCEPT !.validatorSet = set, !.totalStake = sumStakes(s, set, Len(set))]

\* The update function of slashValidator.
slash(val) ==
    LET slashAmount == MulU64(val.stakedAmount, SlashPercentage) \div 100
        count == val.slashCount + 1
    IN  [val EXCEPT !.stakedAmount = @ - slashAmount,
                    !.slashCount = count,
                    !.active = IF count >= MaxSlashCount THEN FALSE ELSE @]

\* Engine.slashValidator: the error of UpdateValidator is dropped.
slashValidator(s, validator) ==
    UpdateValidator(s, validator, slash(s.valCells[s.validators[validator]])).state

\* CollectVote storing the vote before it looks at the validator and the
\* signature.
CollectVote_StoreFirst(e, s, vote, blockHash) ==
    LET ptr == GetValidator(s, vote.validator)
        stored == [e EXCEPT !.votes[vote.validator] = <<vote>>]
    IN  IF ptr = 0 THEN [engine |-> stored, state |-> s, err |-> ErrUnknownValidator]
        ELSE IF ~s.valCells[ptr].active
        THEN [engine |-> stored, state |-> s, err |-> ErrInactiveValidator]
        ELSE IF ~Verify(vote.validator, blockHash, vote.signature)
        THEN [engine |-> stored, state |-> s, err |-> ErrInvalidSignature]
        ELSE [engine |-> stored, state |-> s, err |-> Ok]

\* Engine.CollectVote
CollectVote(e, s, vote, blockHash) ==
    LET ptr == GetValidator(s, vote.validator)
        existing == e.votes[vote.validator]
    IN  IF ptr = 0 THEN [engine |-> e, state |-> s, err |-> ErrUnknownValidator]
        ELSE IF ~s.valCells[ptr].active
        THEN [engine |-> e, state |-> s, err |-> ErrInactiveValidator]
        ELSE IF ~Verify(vote.validator, blockHash, vote.signature)
        THEN [engine |-> e, state |-> s, err |-> ErrInvalidSignature]
        ELSE IF existing # <<>> /\ existing[1].round = vote.round
        THEN [engine |-> e, state |-> slashValidator(s, vote.validator),
              err |-> ErrDoubleVote]
        ELSE [engine |-> [e EXCEPT !.votes[vote.validator] = <<vote>>],
              state |-> s, err |-> Ok]

\* "voteStake += val.StakedAmount" over the keys of e.votes.
VoteStake(e, s) ==
    LET voters == {k \in PublicKeys : e.votes[k] # <<>> /\ GetValidator(s, k) # 0}
        RECURSIVE sum(_)
        sum(ks) == IF ks = {} THEN 0
                   ELSE LET k == CHOOSE x \in ks : TRUE
                        IN  AddU64(sum(ks \ {k}), s.valCells[GetValidator(s, k)].stakedAmount)
    IN  sum(voters)

\* uint64(float64(e.totalStake) * BFTQuorum): BFTQuorum is the float64 nearest
\* to 2/3, the product is rounded to float64 and then truncated; for a total
\* below 2^50 that is the integer part of 2*total/3.
QuorumThreshold(total) == (2 * total) \div 3

\* Engine.HasQuorum, once it holds the read lock.
HasQuorum(e, s) == VoteStake(e, s) >= QuorumThreshold(e.totalStake)

\* Engine.FinalizeBlock, called with e.mu free: it takes the write lock, appends
\* the votes to the block it was given and calls HasQuorum, which takes the
\* read lock of the same mutex.
FinalizeBlock(e, s) ==
    LET locked == [e EXCEPT !.mu.writer = TRUE]
    IN  IF ~CanRLock(locked.mu)
        THEN [engine |-> locked, err |-> Blocked]
        ELSE IF ~HasQuorum(locked, s)
        THEN [engine |-> e, err |-> ErrInsufficientVotes]
        ELSE [engine |-> [e EXCEPT !.votes = [k \in PublicKeys |-> <<>>],
                                   !.currentRound = @ + 1],
              err |-> Ok]

\* An Unbond that takes the validator out at once, with no unbonding period.
unbond_NoPeriod(val, atHeight) ==
    [val EXCEPT !.active = FALSE, !.unbondingUntil = atHeight]

\* The update function of an Unbond.
unbond(val, atHeight) ==
    [val EXCEPT !.active = FALSE, !.unbondingUntil = AddU64(atHeight, UnbondingPeriod)]

\* Engine.ProcessStakingTx
ProcessStakingTx(s, stx, atHeight) ==
    IF stx.type = "bond"
    THEN AddValidator(s, stx.validator, stx.amount, atHeight)
    ELSE UpdateValidator(s, stx.validator,
                         unbond(s.valCells[s.validators[stx.validator]], atHeight))

(***************************************************************************)
(* What the properties observe of a call.                                  *)
(***************************************************************************)
RECURSIVE TrueSum(_, _)
\* The sum of the amounts as an integer.
TrueSum(items, n) == IF n = 0 THEN 0 ELSE TrueSum(items, n - 1) + items[n].amount

TrueBalanced(tx) ==
    TrueSum(tx.inputs, Len(tx.inputs)) = TrueSum(tx.outputs, Len(tx.outputs)) + tx.fee

\* tx names a key image that a transaction of an applied block has spent.
RefersToApplied(tx) == \E k \in InputKeyImages(tx) : spentCount[k] > 0

NoCall ==
    [op |-> "none", err |-> Ok, cause |-> Ok, nextHeight |-> FALSE,
     refApplied |-> FALSE, validator |-> 0, conflict |-> "none", quorum |-> FALSE,
     proposers |-> {}, key |-> <<>>, value |-> <<>>]
NoArg == <<>>

(***************************************************************************)
(* The ledger's operations as actions.                                     *)
(***************************************************************************)
CallApplyBlock(block) ==
    LET r == ApplyBlock(LedgerState, block)
        n == Len(block.transactions)
    IN  /\ SetLedger(r.state)
        /\ ret' = [NoCall EXCEPT
                     !.op = "ApplyBlock", !.err = r.err,
                     !.nextHeight = (block.header.height = height + 1),
                     !.refApplied =
                         \E i \in 1 .. n : RefersToApplied(block.transactions[i])]
        /\ arg' = NoArg
        /\ UNCHANGED <<poolVars, txn, walletVars, engineVars, dbVars, nodeVars, votedFor>>
        /\ spentCount' =
               IF r.err = Ok
               THEN [k \in KeyImages |->
                       spentCount[k] +
                       Cardinality({j \in 1 .. n : k \in InputKeyImages(block.transactions[j])})]
               ELSE spentCount

\* record: whether the specification keeps the transaction in arg.
CallValidateTransaction(tx, record) ==
    LET r == ValidateTransaction(LedgerState, tx)
    IN  /\ SetLedger(r.state)
        /\ ret' = [NoCall EXCEPT !.op = "ValidateTransaction", !.err = r.err,
                                 !.refApplied = RefersToApplied(tx)]
        /\ arg' = IF record THEN tx ELSE NoArg
        /\ UNCHANGED <<poolVars, txn, walletVars, engineVars, dbVars, nodeVars, spentCount, votedFor>>

\* NewEngine
NewEngine ==
    [validatorSet |-> <<>>, totalStake |-> 0, votes |-> [k \in PublicKeys |-> <<>>],
     currentRound |-> 0, mu |-> [writer |-> FALSE, readers |-> 0, waiting |-> 0]]

InitEngineVars ==
    /\ validatorSet = NewEngine.validatorSet
    /\ totalStake = NewEngine.totalStake
    /\ votes = NewEngine.votes
    /\ currentRound = NewEngine.currentRound
    /\ mu = NewEngine.mu

\* storage.Open on an empty data directory
NewDatabase == [byHeight |-> <<>>, byHash |-> <<>>, latestHeight |-> <<>>]

InitDbVars ==
    /\ dbByHeight = NewDatabase.byHeight
    /\ dbByHash = NewDatabase.byHash
    /\ dbLatestHeight = NewDatabase.latestHeight

\* A node that is no validator, before anything was received or sent.
InitNodeVars ==
    /\ txPool = <<>>
    /\ validatorPub = 0
    /\ lastBroadcast = <<>>

\* No wallet.
InitWalletVars ==
    /\ walletKeys = <<>>
    /\ stealthOutput = <<>>

\* No SaveBlock call in progress.  pc is the statement the call is at,
\* pending the transaction's buffered writes, before the database as it was
\* when the call began.
NoTxn == [pc |-> "idle", pending |-> <<>>, before |-> NewDatabase]

InitTxn == txn = NoTxn

\* Neither goroutine is inside its function; nothing accepted or proposed.
NoGoroutines ==
    [handler |-> [pc |-> "idle", tx |-> <<>>, pool |-> <<>>],
     ticker |-> [pc |-> "idle", txs |-> <<>>]]

\* The threads, none inside an operation.
Threads == 1 .. MaxThreads
NoThreads == [t \in Threads |-> [op |-> "none", pc |-> 0, waiting |-> FALSE, held |-> <<>>]]

InitPoolVars ==
    /\ goroutines = NoGoroutines
    /\ poolHistory = [accepted |-> {}, proposed |-> {}]
    /\ stateMu = [writer |-> FALSE, readers |-> 0, waiting |-> 0]
    /\ threads = NoThreads

InitObservers ==
    /\ ret = NoCall
    /\ arg = NoArg
    /\ spentCount = [k \in KeyImages |-> 0]
    /\ votedFor = {}

InitLedger ==
    /\ utxos = <<>>
    /\ spentKeyImages = {}
    /\ validators = [k \in PublicKeys |-> 0]
    /\ valCells = <<>>
    /\ height = 0
    /\ InitEngineVars
    /\ InitDbVars
    /\ InitNodeVars
    /\ InitWalletVars
    /\ InitTxn
    /\ InitPoolVars
    /\ InitObservers

NextLedger ==
    \/ \E block \in LedgerBlocks : CallApplyBlock(block)
    \/ \E tx \in Transactions : CallValidateTransaction(tx, FALSE)

SpecLedger == InitLedger /\ [][NextLedger]_vars

(***************************************************************************)
(* ValidateTransaction as a function of the spent set and the transaction. *)
(***************************************************************************)
InitValidate ==
    /\ utxos = <<>>
    /\ spentKeyImages \in SUBSET KeyImages
    /\ validators = [k \in PublicKeys |-> 0]
    /\ valCells = <<>>
    /\ height = 0
    /\ InitEngineVars
    /\ InitDbVars
    /\ InitNodeVars
    /\ InitWalletVars
    /\ InitTxn
    /\ InitPoolVars
    /\ InitObservers

NextValidate == \E tx \in Transactions : CallValidateTransaction(tx, TRUE)

SpecValidate == InitValidate /\ [][NextValidate]_vars

(***************************************************************************)
(* The consensus engine over the validator registry.                       *)
(***************************************************************************)
\* The stake (as an integer) of the validators whose votes are held is at
\* least two thirds of the total stake, rounded up.
QuorumOfStake ==
    LET voters == {k \in PublicKeys : votes[k] # <<>> /\ validators[k] # 0}
        RECURSIVE sum(_)
        sum(ks) == IF ks = {} THEN 0
                   ELSE LET k == CHOOSE x \in ks : TRUE
                        IN  sum(ks \ {k}) + valCells[validators[k]].stakedAmount
    IN  sum(voters) >= (2 * totalStake + 2) \div 3

\* How a vote that CollectVote would check for double-voting (known and active
\* validator, valid signature) relates to the stored vote of its round.
ConflictOf(vote, blockHash) ==
    LET ptr == validators[vote.validator]
        existing == votes[vote.validator]
    IN  IF ptr = 0 \/ existing = <<>> THEN "none"
        ELSE IF ~valCells[ptr].active \/ ~Verify(vote.validator, blockHash, vote.signature)
        THEN "none"
        ELSE IF existing[1].round # vote.round THEN "none"
        ELSE IF existing[1].signature.hash = blockHash THEN "same"
        ELSE "different"

CallCollectVote(vote, blockHash) ==
    /\ CanLock(mu)
    /\ LET r == CollectVote(EngineState, LedgerState, vote, blockHash)
       IN  /\ SetEngine(r.engine)
           /\ SetLedger(r.state)
           /\ ret' = [NoCall EXCEPT !.op = "CollectVote", !.err = r.err,
                                    !.validator = vote.validator,
                                    !.conflict = ConflictOf(vote, blockHash)]
    /\ UNCHANGED <<poolVars, txn, walletVars, dbVars, nodeVars, arg, spentCount, votedFor>>

\* The vote is from a registered, active validator and its signature verifies
\* over blockHash.
ValidVote(vote, blockHash) ==
    /\ validators[vote.validator] # 0
    /\ valCells[validators[vote.validator]].active
    /\ vote.signature.signer = vote.validator
    /\ vote.signature.hash = blockHash

\* CollectVote, the specification keeping the call's arguments in arg and, in
\* votedFor, the first valid vote received from each validator at each round.
CallCollectVoteRecorded(vote, blockHash) ==
    /\ CanLock(mu)
    /\ LET r == CollectVote(EngineState, LedgerState, vote, blockHash)
       IN  /\ SetEngine(r.engine)
           /\ SetLedger(r.state)
           /\ ret' = [NoCall EXCEPT !.op = "CollectVote", !.err = r.err,
                                    !.validator = vote.validator]
    /\ arg' = <<vote, blockHash>>
    /\ votedFor' =
         IF /\ ValidVote(vote, blockHash)
            /\ ~\E f \in votedFor : f[1] = vote.validator /\ f[2] = vote.round
         THEN votedFor \cup {<<vote.validator, vote.round, blockHash>>}
         ELSE votedFor
    /\ UNCHANGED <<poolVars, txn, walletVars, dbVars, nodeVars, spentCount>>

CallHasQuorum ==
    /\ CanRLock(mu)
    /\ ret' = [NoCall EXCEPT !.op = "HasQuorum",
                             !.err = IF HasQuorum(EngineState, LedgerState)
                                     THEN "true" ELSE "false",
                             !.quorum = QuorumOfStake]
    /\ UNCHANGED <<poolVars, txn, walletVars, ledgerVars, engineVars, dbVars, nodeVars, arg, spentCount, votedFor>>

CallFinalizeBlock ==
    /\ CanLock(mu)
    /\ LET r == FinalizeBlock(EngineState, LedgerState)
       IN  /\ SetEngine(r.engine)
           /\ ret' = [NoCall EXCEPT !.op = "FinalizeBlock", !.err = r.err,
                                    !.quorum = QuorumOfStake]
    /\ UNCHANGED <<poolVars, txn, walletVars, ledgerVars, dbVars, nodeVars, arg, spentCount, votedFor>>

CallProcessStakingTx(stx) ==
    /\ LET r == ProcessStakingTx(LedgerState, stx, height)
       IN  /\ SetLedger(r.state)
           /\ ret' = [NoCall EXCEPT !.op = "ProcessStakingTx", !.err = r.err,
                                    !.validator = stx.validator]
    /\ arg' = stx
    /\ UNCHANGED <<poolVars, txn, walletVars, engineVars, dbVars, nodeVars, spentCount, votedFor>>

CallUpdateValidatorSet ==
    /\ CanLock(mu)
    /\ \E order \in IterationOrders(LedgerState) :
          SetEngine(UpdateValidatorSet(EngineState, LedgerState, order))
    /\ ret' = [NoCall EXCEPT !.op = "UpdateValidatorSet"]
    /\ UNCHANGED <<poolVars, txn, walletVars, ledgerVars, dbVars, nodeVars, arg, spentCount, votedFor>>

\* The registries an engine is built over: InitializeGenesis on a new State
\* (NewNode), or that followed by one AddValidator before the engine is built.
InitialRegistries ==
    LET fromGenesis == {InitializeGenesis(NewState, g) : g \in GenesisValidators}
    IN  fromGenesis \cup
        {AddValidator(s, k, st, 0).state :
            s \in fromGenesis, k \in PublicKeys, st \in Stakes}

\* NewNode: the State after InitializeGenesis, NewEngine, UpdateValidatorSet.
InitEngine ==
    /\ \E s0 \in InitialRegistries :
              \E order \in IterationOrders(s0) :
                LET e0 == UpdateValidatorSet(NewEngine, s0, order)
                IN  /\ utxos = s0.utxos
                    /\ spentKeyImages = s0.spentKeyImages
                    /\ validators = s0.validators
                    /\ valCells = s0.valCells
                    /\ height = s0.height
                    /\ validatorSet = e0.validatorSet
                    /\ totalStake = e0.totalStake
                    /\ votes = e0.votes
                    /\ currentRound = e0.currentRound
                    /\ mu = e0.mu
    /\ InitDbVars
    /\ InitNodeVars
    /\ InitWalletVars
    /\ InitTxn
    /\ InitPoolVars
    /\ InitObservers

NextEngine ==
    \/ \E vote \in Votes, blockHash \in BlockHashes : CallCollectVote(vote, blockHash)
    \/ CallHasQuorum
    \/ CallFinalizeBlock

SpecEngine == InitEngine /\ [][NextEngine]_vars

(***************************************************************************)
(* package consensus: proposer selection and block validation.             *)
(***************************************************************************)
\* computeTxRoot: SHA-256 over the transaction hashes in block order,
\* represented by its preimage.
computeTxRoot(txs) == [i \in 1 .. Len(txs) |-> TxHash(txs[i])]

\* binary.BigEndian.Uint64(sha256(height || round)[:8]): a fixed function of
\* the two numbers with values all over uint64; this one stands for it.
SelectionSeed(h, round) == (37 * h + 11 * round + 5) % Uint64Mod

RECURSIVE selectByStake(_, _, _, _, _)
\* The loop of SelectProposer from index i on, cumulative being the stake of
\* the validators before i.
selectByStake(e, s, selection, i, cumulative) ==
    IF i > Len(e.validatorSet)
    THEN s.valCells[e.validatorSet[1]].publicKey
    ELSE LET val == s.valCells[e.validatorSet[i]]
             next == AddU64(cumulative, val.stakedAmount)
         IN  IF selection < next THEN val.publicKey
             ELSE selectByStake(e, s, selection, i + 1, next)

\* Engine.SelectProposer, once it holds the read lock.
SelectProposer(e, s, h, round) ==
    IF Len(e.validatorSet) = 0 THEN [proposer |-> 0, err |-> ErrNoValidators]
    ELSE IF e.totalStake = 0 THEN [proposer |-> 0, err |-> Panic]
    ELSE [proposer |-> selectByStake(e, s, SelectionSeed(h, round) % e.totalStake, 1, 0),
          err |-> Ok]

RECURSIVE validateTransactions(_, _)
\* The loop of ValidateBlock over block.Transactions: the first error.
validateTransactions(s, txs) ==
    IF txs = <<>> THEN Ok
    ELSE LET r == ValidateTransaction(s, Head(txs))
         IN  IF r.err # Ok THEN r.err ELSE validateTransactions(s, Tail(txs))

\* Engine.ValidateBlock; now is time.Now().Unix().
ValidateBlock(e, s, block, prevBlock, now) ==
    LET selected == SelectProposer(e, s, block.header.height, block.header.round)
    IN  IF block.header.height # AddU64(prevBlock.header.height, 1)
        THEN ErrInvalidHeight
        ELSE IF block.header.prevBlockHash # HeaderHash(prevBlock.header)
        THEN ErrInvalidPrevHash
        ELSE IF block.header.timestamp > now + MaxClockDrift THEN ErrTimestamp
        ELSE IF selected.err # Ok THEN selected.err
        ELSE IF selected.proposer # block.header.proposer THEN ErrInvalidProposer
        ELSE validateTransactions(s, block.transactions)

(***************************************************************************)
(* package storage                                                         *)
(***************************************************************************)
\* The Database object as one value.
DatabaseState ==
    [byHeight |-> dbByHeight, byHash |-> dbByHash, latestHeight |-> dbLatestHeight]

SetDatabase(db) ==
    /\ dbByHeight' = db.byHeight
    /\ dbByHash' = db.byHash
    /\ dbLatestHeight' = db.latestHeight

\* txn.Set
Put(f, key, value) ==
    [k \in DOMAIN f \cup {key} |-> IF k = key THEN value ELSE f[k]]

\* json.Marshal of a *types.Block: an object of the struct's fields, the
\* proposer key as the hex string of PublicKey.MarshalJSON.
MarshalBlock(block) ==
    [Header |-> [Height |-> block.header.height,
                 Timestamp |-> block.header.timestamp,
                 PrevBlockHash |-> block.header.prevBlockHash,
                 TxRoot |-> block.header.txRoot,
                 StateRoot |-> block.header.stateRoot,
                 Proposer |-> <<"hex", block.header.proposer>>,
                 Round |-> block.header.round],
     Transactions |-> block.transactions,
     Validators |-> block.validators]

\* json.Unmarshal into a types.Block, PublicKey.UnmarshalJSON for the proposer.
UnmarshalBlock(data) ==
    [header |-> [height |-> data.Header.Height,
                 timestamp |-> data.Header.Timestamp,
                 prevBlockHash |-> data.Header.PrevBlockHash,
                 txRoot |-> data.Header.TxRoot,
                 stateRoot |-> data.Header.StateRoot,
                 proposer |-> data.Header.Proposer[2],
                 round |-> data.Header.Round],
     transactions |-> data.Transactions,
     validators |-> data.Validators]

\* makeBlockKey and makeBlockHashKey: the two key spaces of a block.
makeBlockKey(h) == <<"b", h>>
makeBlockHashKey(hash) == <<"h", hash>>

\* One buffered write applied to the database.
ApplyWrite(db, w) ==
    IF w.key[1] = "b"
    THEN [db EXCEPT !.byHeight = Put(@, w.key[2], w.value)]
    ELSE [db EXCEPT !.byHash = Put(@, w.key[2], w.value)]

\* txn.Set as a write of its own, visible at once.
TxnSet_WriteThrough(t, key, value) ==
    [t EXCEPT !.db = ApplyWrite(@, [key |-> key, value |-> value])]

\* txn.Set inside db.Update: the write is buffered in the transaction; the
\* database other transactions read is not touched.  t is the pair of the
\* database and the transaction's pending writes.
TxnSet(t, key, value) ==
    [t EXCEPT !.pending = Append(@, [key |-> key, value |-> value])]

\* The commit db.Update makes when its closure returns nil: all buffered
\* writes become visible together.
RECURSIVE Commit(_, _)
Commit(db, pending) ==
    IF pending = <<>> THEN db
    ELSE Commit(ApplyWrite(db, Head(pending)), Tail(pending))

\* Database.SaveBlock when nothing fails: both keys are written in one
\* transaction.
SaveBlock(db, block) ==
    LET data == MarshalBlock(block)
        t0 == [db |-> db, pending |-> <<>>]
        t1 == TxnSet(t0, makeBlockKey(block.header.height), data)
        t2 == TxnSet(t1, makeBlockHashKey(HeaderHash(block.header)), data)
    IN  Commit(t2.db, t2.pending)

\* Database.GetBlock: <<>> for the key-not-found error, <<block>> otherwise.
GetBlock(db, h) ==
    IF h \in DOMAIN db.byHeight THEN <<UnmarshalBlock(db.byHeight[h])>> ELSE <<>>

\* Database.GetBlockByHash: <<>> for the key-not-found error.
GetBlockByHash(db, hash) ==
    IF hash \in DOMAIN db.byHash THEN <<UnmarshalBlock(db.byHash[hash])>> ELSE <<>>

\* The bytes of a height: the 8 bytes of a uint64, as many as the word has here.
HeightBytes == (WordBits + 7) \div 8

\* The little-endian bytes UpdateLatestHeight writes.
EncodeHeight(h) == [i \in 1 .. HeightBytes |-> (h \div 256 ^ (i - 1)) % 256]

\* The uint64 GetLatestHeight reads from the bytes.
RECURSIVE DecodeHeight(_)
DecodeHeight(val) ==
    IF val = <<>> THEN 0
    ELSE (val[1] + 256 * DecodeHeight(Tail(val))) % Uint64Mod

\* Database.GetLatestHeight: 0 while the key is absent.
GetLatestHeight(db) ==
    IF db.latestHeight = <<>> THEN 0 ELSE DecodeHeight(db.latestHeight[1])

\* Database.GetLatestBlock
GetLatestBlock(db) == GetBlock(db, GetLatestHeight(db))

\* Database.UpdateLatestHeight
UpdateLatestHeight(db, h) == [db EXCEPT !.latestHeight = <<EncodeHeight(h)>>]

(***************************************************************************)
(* package main: the node's handlers.                                      *)
(***************************************************************************)
\* "block.Header.Height - 1" in uint64.
SubU64(a, b) == (a - b + Uint64Mod) % Uint64Mod

\* What the two database writes of handleBlock can do: both succeed, SaveBlock
\* returns an error, or UpdateLatestHeight returns an error.
WriteOutcomes == {"ok", "SaveBlock fails", "UpdateLatestHeight fails"}

\* handleBlock writing latest_height whether or not SaveBlock succeeded.
handleBlock_HeightBeforeSave(s, e, db, block, now, writes) ==
    LET prevBlock == GetBlock(db, SubU64(block.header.height, 1))
        invalid == ValidateBlock(e, s, block, prevBlock[1], now)
        applied == ApplyBlock(s, block)
        marked == UpdateLatestHeight(db, block.header.height)
    IN  IF prevBlock = <<>>
        THEN [state |-> s, db |-> db, err |-> ErrGetPrevious, cause |-> ErrKeyNotFound]
        ELSE IF invalid # Ok
        THEN [state |-> s, db |-> db, err |-> ErrInvalidBlock, cause |-> invalid]
        ELSE IF applied.err # Ok
        THEN [state |-> applied.state, db |-> db,
              err |-> ErrApplyBlock, cause |-> applied.err]
        ELSE IF writes = "SaveBlock fails"
        THEN [state |-> applied.state, db |-> marked,
              err |-> ErrSaveBlock, cause |-> ErrWrite]
        ELSE [state |-> applied.state, db |-> SaveBlock(marked, block),
              err |-> IF writes = "ok" THEN Ok ELSE ErrUpdateHeight,
              cause |-> IF writes = "ok" THEN Ok ELSE ErrWrite]

\* Node.handleBlock on a decoded block; writes is the outcome of its writes.
handleBlock(s, e, db, block, now, writes) ==
    LET prevBlock == GetBlock(db, SubU64(block.header.height, 1))
        invalid == ValidateBlock(e, s, block, prevBlock[1], now)
        applied == ApplyBlock(s, block)
    IN  IF prevBlock = <<>>
        THEN [state |-> s, db |-> db, err |-> ErrGetPrevious, cause |-> ErrKeyNotFound]
        ELSE IF invalid # Ok
        THEN [state |-> s, db |-> db, err |-> ErrInvalidBlock, cause |-> invalid]
        ELSE IF applied.err # Ok
        THEN [state |-> applied.state, db |-> db,
              err |-> ErrApplyBlock, cause |-> applied.err]
        ELSE IF writes = "SaveBlock fails"
        THEN [state |-> applied.state, db |-> db,
              err |-> ErrSaveBlock, cause |-> ErrWrite]
        ELSE IF writes = "UpdateLatestHeight fails"
        THEN [state |-> applied.state, db |-> SaveBlock(db, block),
              err |-> ErrUpdateHeight, cause |-> ErrWrite]
        ELSE [state |-> applied.state,
              db |-> UpdateLatestHeight(SaveBlock(db, block), block.header.height),
              err |-> Ok, cause |-> Ok]

\* The write outcomes that matter to a call: all of them when the handler
\* reaches SaveBlock, one when it returns before.
WriteOutcomesFor(s, e, db, block, now) ==
    IF handleBlock(s, e, db, block, now, "ok").err = Ok THEN WriteOutcomes ELSE {"ok"}

\* Node.handleVote on a decoded vote.
handleVote(s, e, db, vote) ==
    LET latestBlock == GetLatestBlock(db)
        r == CollectVote(e, s, vote, HeaderHash(latestBlock[1].header))
    IN  IF latestBlock = <<>>
        THEN [state |-> s, engine |-> e, err |-> ErrKeyNotFound, cause |-> Ok]
        ELSE IF r.err # Ok
        THEN [state |-> r.state, engine |-> r.engine,
              err |-> ErrCollectVote, cause |-> r.err]
        ELSE [state |-> r.state, engine |-> r.engine, err |-> Ok, cause |-> Ok]

\* The first block of a chain, which no function of the repository writes: a
\* node finds it in its data directory or has no block at all.
GenesisBlock ==
    [header |-> [height |-> 0, timestamp |-> 0, prevBlockHash |-> ZeroHash,
                 txRoot |-> computeTxRoot(<<>>), stateRoot |-> ZeroHash,
                 proposer |-> 0, round |-> 0],
     transactions |-> <<>>, validators |-> <<>>]

\* The transactions of the blocks a node receives: one that spends key image 1
\* into an output, one that spends key image 2 and does not balance.
NodeTransactions ==
    {tx \in BlockTransactions :
        \/ Len(tx.inputs) = 1 /\ tx.inputs[1].keyImage = 1 /\ Len(tx.outputs) = 1
        \/ Len(tx.inputs) = 1 /\ tx.inputs[1].keyImage = 2 /\ Len(tx.outputs) = 0}

\* The rounds of the blocks and votes a node receives: proposeBlock selects
\* for round 0, and no function of the node advances Engine.currentRound.
NodeRounds == {0}

\* The header hashes a peer can know: those of the stored blocks, and the zero
\* hash.
KnownHashes == DOMAIN dbByHash \cup {ZeroHash}

\* The blocks the gossip layer may deliver.
ReceivedBlocks ==
    {[header |-> [height |-> h, timestamp |-> ts, prevBlockHash |-> ph,
                  txRoot |-> computeTxRoot(txs), stateRoot |-> ZeroHash,
                  proposer |-> p, round |-> round],
      transactions |-> txs, validators |-> <<>>] :
        h \in Heights, ts \in Timestamps, ph \in KnownHashes, p \in PublicKeys,
        round \in NodeRounds, txs \in SeqsOf(NodeTransactions, 0, 1)}

\* The votes the gossip layer may deliver.
ReceivedVotes ==
    [validator : PublicKeys, signature : [signer : PublicKeys, hash : KnownHashes],
     round : NodeRounds]

\* The votes collected for the header hash have the stake (as an integer) of
\* at least two thirds of the total stake, rounded up.
QuorumCollectedFor(hash) ==
    LET voters == {k \in PublicKeys : <<k, hash>> \in votedFor /\ validators[k] # 0}
        RECURSIVE sum(_)
        sum(ks) == IF ks = {} THEN 0
                   ELSE LET k == CHOOSE x \in ks : TRUE
                        IN  sum(ks \ {k}) + valCells[validators[k]].stakedAmount
    IN  sum(voters) >= (2 * totalStake + 2) \div 3

\* The number of transactions of the block that name key image k.
SpendsOf(block, k) ==
    Cardinality({j \in 1 .. Len(block.transactions) :
                    k \in InputKeyImages(block.transactions[j])})

\* The block handler runs and its database writes have the given outcome.
\* record: whether the specification keeps the block in arg.
HandleBlockWith(block, record, writes) ==
    /\ CanRLock(mu)
    /\ LET r == handleBlock(LedgerState, EngineState, DatabaseState, block, Now, writes)
       IN  /\ SetLedger(r.state)
           /\ SetDatabase(r.db)
           /\ ret' = [NoCall EXCEPT
                        !.op = "handleBlock", !.err = r.err, !.cause = r.cause,
                        !.quorum = QuorumCollectedFor(HeaderHash(block.header))]
           /\ spentCount' = IF r.err = Ok
                            THEN [k \in KeyImages |-> spentCount[k] + SpendsOf(block, k)]
                            ELSE spentCount
    /\ arg' = IF record THEN block ELSE arg
    /\ UNCHANGED <<poolVars, txn, walletVars, engineVars, nodeVars, votedFor>>

\* The block handler on a disk that takes every write.
CallHandleBlock(block, record) == HandleBlockWith(block, record, "ok")

\* The block handler on a disk that refuses one of its writes.
CallHandleBlockWriteFails(block) ==
    \E writes \in WriteOutcomesFor(LedgerState, EngineState, DatabaseState, block, Now)
                  \ {"ok"} :
        HandleBlockWith(block, FALSE, writes)

CallHandleVote(vote) ==
    /\ CanLock(mu)
    /\ LET r == handleVote(LedgerState, EngineState, DatabaseState, vote)
       IN  /\ SetLedger(r.state)
           /\ SetEngine(r.engine)
           /\ ret' = [NoCall EXCEPT !.op = "handleVote", !.err = r.err,
                                    !.cause = r.cause]
           /\ votedFor' = IF r.err = Ok
                          THEN votedFor \cup {<<vote.validator, vote.signature.hash>>}
                          ELSE votedFor
    /\ UNCHANGED <<poolVars, txn, walletVars, dbVars, nodeVars, arg, spentCount>>

\* The genesis files of the node specification.
NodeGenesis ==
    {<<NewValidatorState(1, 100, 0)>>,
     <<NewValidatorState(1, 34, 0), NewValidatorState(2, 66, 0)>>}

\* The data directories a node is started on.
DataDirectories == {NewDatabase, SaveBlock(NewDatabase, GenesisBlock)}

\* NewNode: storage.Open, NewState, InitializeGenesis, NewEngine,
\* UpdateValidatorSet.
InitNodeWith(genesisFiles, directories) ==
    /\ \E g \in genesisFiles :
          LET s0 == InitializeGenesis(NewState, g)
          IN  \E order \in IterationOrders(s0) :
                LET e0 == UpdateValidatorSet(NewEngine, s0, order)
                IN  /\ utxos = s0.utxos
                    /\ spentKeyImages = s0.spentKeyImages
                    /\ validators = s0.validators
                    /\ valCells = s0.valCells
                    /\ height = s0.height
                    /\ validatorSet = e0.validatorSet
                    /\ totalStake = e0.totalStake
                    /\ votes = e0.votes
                    /\ currentRound = e0.currentRound
                    /\ mu = e0.mu
    /\ \E db \in directories :
          /\ dbByHeight = db.byHeight
          /\ dbByHash = db.byHash
          /\ dbLatestHeight = db.latestHeight
    /\ InitNodeVars
    /\ InitWalletVars
    /\ InitTxn
    /\ InitPoolVars
    /\ InitObservers

InitNodeOn(directories) == InitNodeWith(NodeGenesis, directories)

InitNode == InitNodeOn(DataDirectories)

NextNode ==
    \/ \E block \in ReceivedBlocks : CallHandleBlock(block, FALSE)
    \/ \E vote \in ReceivedVotes : CallHandleVote(vote)

SpecNode == InitNode /\ [][NextNode]_vars

(***************************************************************************)
(* The proposer: the ticker goroutine of a validator node (produceBlocks), *)
(* the transaction handler that feeds the pool, and the node's own         *)
(* messages coming back from the gossip layer.  The validators of the      *)
(* genesis file are the only proposers, so the blocks and votes on the     *)
(* network of a node that is the selected proposer are its own.            *)
(***************************************************************************)
\* The orders in which a range over a map with these keys may visit them.
KeyOrders(keys) ==
    {o \in [1 .. Cardinality(keys) -> keys] :
        \A i, j \in DOMAIN o : i # j => o[i] # o[j]}

\* State.ComputeStateRoot: SHA-256 over the UTXO keys in the order the range
\* over s.utxos visits them, represented by its preimage.
ComputeStateRoot(s, order) == [i \in 1 .. Len(order) |-> order[i]]

\* Engine.ProposeBlock; pub is e.validatorPub, now is time.Now().Unix().
ProposeBlock(e, s, pub, txs, prevBlock, now, order) ==
    [header |-> [height |-> AddU64(prevBlock.header.height, 1),
                 timestamp |-> now,
                 prevBlockHash |-> HeaderHash(prevBlock.header),
                 txRoot |-> computeTxRoot(txs),
                 stateRoot |-> ComputeStateRoot(s, order),
                 proposer |-> pub,
                 round |-> e.currentRound],
     transactions |-> txs, validators |-> <<>>]

\* Engine.VoteForBlock; pub is e.validatorPub, 0 when e.validatorKey is nil.
VoteForBlock(e, pub, block) ==
    IF pub = 0 THEN [vote |-> <<>>, err |-> ErrNotValidator]
    ELSE [vote |-> <<[validator |-> pub,
                      signature |-> [signer |-> pub, hash |-> HeaderHash(block.header)],
                      round |-> e.currentRound]>>,
          err |-> Ok]

\* Node.proposeBlock: what it leaves in the pool and what it hands to the
\* network (<<>>: nothing, <<block, vote>> otherwise).
proposeBlock(s, e, db, pool, pub, now, order) ==
    LET selected == SelectProposer(e, s, AddU64(s.height, 1), 0)
        prevBlock == GetLatestBlock(db)
        block == ProposeBlock(e, s, pub, pool, prevBlock[1], now, order)
        voted == VoteForBlock(e, pub, block)
    IN  IF selected.err # Ok
        THEN [pool |-> pool, broadcast |-> <<>>, err |-> selected.err]
        ELSE IF selected.proposer # pub
        THEN [pool |-> pool, broadcast |-> <<>>, err |-> Ok]
        ELSE IF prevBlock = <<>>
        THEN [pool |-> pool, broadcast |-> <<>>, err |-> ErrKeyNotFound]
        ELSE IF voted.err # Ok
        THEN [pool |-> <<>>, broadcast |-> <<>>, err |-> voted.err]
        ELSE [pool |-> <<>>, broadcast |-> <<block, voted.vote[1]>>, err |-> Ok]

\* handleTransaction adding the transaction to the pool before it validates.
handleTransaction_AppendFirst(s, pool, tx) ==
    LET r == ValidateTransaction(s, tx)
    IN  [state |-> r.state, pool |-> Append(pool, tx),
         err |-> IF r.err # Ok THEN ErrInvalidTransaction ELSE Ok, cause |-> r.err]

\* Node.handleTransaction on a decoded transaction.
handleTransaction(s, pool, tx) ==
    LET r == ValidateTransaction(s, tx)
    IN  IF r.err # Ok
        THEN [state |-> r.state, pool |-> pool,
              err |-> ErrInvalidTransaction, cause |-> r.err]
        ELSE [state |-> r.state, pool |-> Append(pool, tx), err |-> Ok, cause |-> Ok]

\* One tick of produceBlocks, which runs in a node that has a validator key.
ProposerTick ==
    /\ validatorPub # 0
    /\ CanLock(mu)
    /\ \E order \in KeyOrders(DOMAIN utxos) :
          LET r == proposeBlock(LedgerState, EngineState, DatabaseState, txPool,
                                validatorPub, Now, order)
          IN  /\ txPool' = r.pool
              /\ lastBroadcast' = IF r.broadcast = <<>> THEN lastBroadcast
                                  ELSE r.broadcast
              /\ ret' = [NoCall EXCEPT !.op = "proposeBlock", !.err = r.err,
                                       !.nextHeight = (r.broadcast # <<>>)]
    /\ UNCHANGED <<poolVars, txn, walletVars, ledgerVars, engineVars, dbVars, validatorPub, arg, spentCount,
                   votedFor>>

\* The transactions peers submit.
PoolTransactions == {tx \in BlockTransactions : Len(tx.inputs) <= 1}

CallHandleTransaction(tx) ==
    /\ Len(txPool) < MaxPool
    /\ LET r == handleTransaction(LedgerState, txPool, tx)
       IN  /\ SetLedger(r.state)
           /\ txPool' = r.pool
           /\ ret' = [NoCall EXCEPT !.op = "handleTransaction", !.err = r.err,
                                    !.cause = r.cause]
    /\ UNCHANGED <<poolVars, txn, walletVars, engineVars, dbVars, validatorPub, lastBroadcast, arg, spentCount,
                   votedFor>>

\* Network.handleMessages takes a block or vote this node published from the
\* subscription: "Skip messages from self", no handler runs.
DeliverOwnMessage ==
    /\ lastBroadcast # <<>>
    /\ ret' = [NoCall EXCEPT !.op = "handleMessages", !.err = SkippedOwn]
    /\ UNCHANGED <<poolVars, txn, walletVars, ledgerVars, engineVars, dbVars, nodeVars, arg, spentCount, votedFor>>

\* NewNode with a validator key file, on either data directory.
InitProposer ==
    /\ \E g \in NodeGenesis :
          LET s0 == InitializeGenesis(NewState, g)
          IN  \E order \in IterationOrders(s0) :
                LET e0 == UpdateValidatorSet(NewEngine, s0, order)
                IN  /\ utxos = s0.utxos
                    /\ spentKeyImages = s0.spentKeyImages
                    /\ validators = s0.validators
                    /\ valCells = s0.valCells
                    /\ height = s0.height
                    /\ validatorSet = e0.validatorSet
                    /\ totalStake = e0.totalStake
                    /\ votes = e0.votes
                    /\ currentRound = e0.currentRound
                    /\ mu = e0.mu
    /\ \E db \in DataDirectories :
          /\ dbByHeight = db.byHeight
          /\ dbByHash = db.byHash
          /\ dbLatestHeight = db.latestHeight
    /\ txPool = <<>>
    /\ validatorPub \in PublicKeys
    /\ lastBroadcast = <<>>
    /\ InitWalletVars
    /\ InitTxn
    /\ InitPoolVars
    /\ InitObservers

NextProposer ==
    \/ ProposerTick
    \/ \E tx \in PoolTransactions : CallHandleTransaction(tx)
    \/ DeliverOwnMessage

\* The ticker of produceBlocks fires every two seconds for ever.
SpecProposer == InitProposer /\ [][NextProposer]_vars /\ WF_vars(ProposerTick)

(***************************************************************************)
(* Staking and proposer selection: the registry under Bond and Unbond, the *)
(* engine's refresh of its validator set, and SelectProposer.              *)
(***************************************************************************)
\* What the engines refreshed from ledger s, one for each order the range
\* over the registry can take, answer for (h, round).
ProposersOf(s, h, round) ==
    {SelectProposer(UpdateValidatorSet(NewEngine, s, order), s, h, round) :
        order \in IterationOrders(s)}

CallSelectProposer(h, round) ==
    /\ CanRLock(mu)
    /\ LET r == SelectProposer(EngineState, LedgerState, h, round)
       IN  ret' = [NoCall EXCEPT !.op = "SelectProposer", !.err = r.err,
                                 !.validator = r.proposer,
                                 !.proposers = ProposersOf(LedgerState, h, round)]
    /\ arg' = NoArg
    /\ UNCHANGED <<poolVars, txn, walletVars, ledgerVars, engineVars, dbVars, nodeVars, spentCount, votedFor>>

\* The sum (as an integer) of stakedAmount over the registry's active entries.
ActiveStake ==
    LET keys == {k \in PublicKeys : validators[k] # 0 /\ valCells[validators[k]].active}
        RECURSIVE sum(_)
        sum(ks) == IF ks = {} THEN 0
                   ELSE LET k == CHOOSE x \in ks : TRUE
                        IN  sum(ks \ {k}) + valCells[validators[k]].stakedAmount
    IN  sum(keys)

\* The heights SelectProposer is asked about.
ProposalHeights == 1 .. MaxHeight

\* NewNode, as in InitEngine, over the registry of a genesis file.
InitStaking ==
    /\ \E g \in GenesisValidators :
          LET s0 == InitializeGenesis(NewState, g)
          IN  \E order \in IterationOrders(s0) :
                LET e0 == UpdateValidatorSet(NewEngine, s0, order)
                IN  /\ utxos = s0.utxos
                    /\ spentKeyImages = s0.spentKeyImages
                    /\ validators = s0.validators
                    /\ valCells = s0.valCells
                    /\ height = s0.height
                    /\ validatorSet = e0.validatorSet
                    /\ totalStake = e0.totalStake
                    /\ votes = e0.votes
                    /\ currentRound = e0.currentRound
                    /\ mu = e0.mu
    /\ InitDbVars
    /\ InitNodeVars
    /\ InitWalletVars
    /\ InitTxn
    /\ InitPoolVars
    /\ InitObservers

NextStaking ==
    \/ \E stx \in StakingTxs : CallProcessStakingTx(stx)
    \/ CallUpdateValidatorSet
    \/ \E h \in ProposalHeights, round \in Rounds : CallSelectProposer(h, round)

SpecStaking == InitStaking /\ [][NextStaking]_vars

(***************************************************************************)
(* package crypto: ring signatures, and the node's block handler on blocks *)
(* whose transactions carry them.                                          *)
(***************************************************************************)
\* The challenge of a ring signature: SHA-256 of the message, the key image
\* and the ring's keys, represented by its preimage.
RingChallenge(message, keyImage, ring) == <<message, keyImage, ring>>

\* verifyResponse: it accepts unless a SHA-256 digest is all zeros.
verifyResponse(response, pubKey, challenge, message) == TRUE

\* crypto.VerifyRingSignature
VerifyRingSignature(sig, message) ==
    /\ Len(sig.ring) = Len(sig.responses)
    /\ sig.c = RingChallenge(message, sig.keyImage, sig.ring)
    /\ \A i \in 1 .. Len(sig.responses) :
          verifyResponse(sig.responses[i], sig.ring[i], sig.c, message)

\* The message a transaction's ring signature signs.
RingMessage(tx) == TxHash(tx)

\* The ring all signatures of the specification are over.
Ring == <<1, 2>>

\* The ring signatures a transaction may carry: none, or one with either key
\* image whose challenge is that of the transaction's message or of another
\* message.
RingSignaturesFor(tx) ==
    {<<>>} \cup
    {<<[ring |-> Ring, c |-> RingChallenge(m, k, Ring), responses |-> <<1, 2>>,
        keyImage |-> k]>> :
        k \in KeyImages, m \in {RingMessage(tx), ZeroHash}}

\* The transaction that spends key image 1 into one output and balances, with
\* every ring signature.
RingTransactions ==
    UNION {LET tx == [inputs |-> <<[keyImage |-> 1, amount |-> 1]>>,
                      outputs |-> <<out>>, fee |-> 0, ringSignature |-> <<>>]
           IN  {[tx EXCEPT !.ringSignature = sig] : sig \in RingSignaturesFor(tx)} :
           out \in {o \in TxOutputs : o.amount = 1}}

\* The blocks of ring-signed transactions the gossip layer may deliver.
RingBlocks ==
    {[header |-> [height |-> h, timestamp |-> 0, prevBlockHash |-> ph,
                  txRoot |-> computeTxRoot(txs), stateRoot |-> ZeroHash,
                  proposer |-> p, round |-> 0],
      transactions |-> txs, validators |-> <<>>] :
        h \in Heights, ph \in KnownHashes, p \in PublicKeys,
        txs \in SeqsOf(RingTransactions, 0, 1)}

\* The transaction carries a ring signature that verifies over its message.
RingVerifies(tx) ==
    /\ tx.ringSignature # <<>>
    /\ VerifyRingSignature(tx.ringSignature[1], RingMessage(tx))

\* A node of the single validator 1 on a data directory that holds block 0.
InitRing ==
    /\ LET s0 == InitializeGenesis(NewState, <<NewValidatorState(1, 100, 0)>>)
           e0 == UpdateValidatorSet(NewEngine, s0, <<1>>)
       IN  /\ utxos = s0.utxos
           /\ spentKeyImages = s0.spentKeyImages
           /\ validators = s0.validators
           /\ valCells = s0.valCells
           /\ height = s0.height
           /\ validatorSet = e0.validatorSet
           /\ totalStake = e0.totalStake
           /\ votes = e0.votes
           /\ currentRound = e0.currentRound
           /\ mu = e0.mu
    /\ LET db == SaveBlock(NewDatabase, GenesisBlock)
       IN  /\ dbByHeight = db.byHeight
           /\ dbByHash = db.byHash
           /\ dbLatestHeight = db.latestHeight
    /\ InitNodeVars
    /\ InitWalletVars
    /\ InitTxn
    /\ InitPoolVars
    /\ InitObservers

NextRing == \E block \in RingBlocks : CallHandleBlock(block, TRUE)

SpecRing == InitRing /\ [][NextRing]_vars

(***************************************************************************)
(* package crypto: stealth addresses.  A private key is its 32-byte seed;  *)
(* SHA-256 digests are represented by their preimages.                     *)
(***************************************************************************)
\* The seeds of the key pairs.
SecretKeys == 1 .. 4

\* The public key ed25519.GenerateKey gives with the private key.
PublicKeyOf(priv) == <<"ed25519", priv>>

\* WalletKeys.GetAddress
GetAddress(wk) ==
    [viewKey |-> PublicKeyOf(wk.viewPriv), spendKey |-> PublicKeyOf(wk.spendPriv)]

\* computeSharedSecret: SHA-256 of the private key's seed and the public key.
computeSharedSecret(privKey, pubKey) == <<privKey, pubKey>>

\* deriveOneTimeKey: SHA-256 of the shared secret and the base key.
deriveOneTimeKey(sharedSecret, baseKey) == <<sharedSecret, baseKey>>

\* derivePrivateKey: SHA-256 of the shared secret and the private key's seed.
derivePrivateKey(sharedSecret, basePriv) == <<sharedSecret, basePriv>>

\* GenerateStealthAddress; ephemeralPriv is the key pair GenerateKeyPair drew.
GenerateStealthAddress(recipientAddr, ephemeralPriv) ==
    LET sharedSecret == computeSharedSecret(ephemeralPriv, recipientAddr.viewKey)
        oneTimeKey == deriveOneTimeKey(sharedSecret, recipientAddr.spendKey)
    IN  [amount |-> 0,
         stealthAddr |-> [viewKey |-> recipientAddr.viewKey, spendKey |-> oneTimeKey],
         txPublicKey |-> PublicKeyOf(ephemeralPriv)]

\* WalletKeys.ScanTransaction
ScanTransaction(wk, output) ==
    LET sharedSecret == computeSharedSecret(wk.viewPriv, output.txPublicKey)
        expectedKey == deriveOneTimeKey(sharedSecret, PublicKeyOf(wk.spendPriv))
    IN  IF expectedKey = output.stealthAddr.spendKey
        THEN [belongs |-> TRUE, key |-> <<expectedKey>>]
        ELSE [belongs |-> FALSE, key |-> <<>>]

\* WalletKeys.DeriveSpendKey
DeriveSpendKey(wk, output) ==
    IF ~ScanTransaction(wk, output).belongs
    THEN [key |-> <<>>, err |-> ErrNotOurOutput]
    ELSE [key |-> <<derivePrivateKey(computeSharedSecret(wk.viewPriv, output.txPublicKey),
                                     wk.spendPriv)>>,
          err |-> Ok]

\* A sender makes an output for the wallet's address.
CallGenerateStealthAddress(ephemeralPriv) ==
    /\ stealthOutput = <<>>
    /\ stealthOutput' = <<GenerateStealthAddress(GetAddress(walletKeys), ephemeralPriv)>>
    /\ ret' = [NoCall EXCEPT !.op = "GenerateStealthAddress"]
    /\ UNCHANGED <<poolVars, txn, ledgerVars, engineVars, dbVars, nodeVars, walletKeys, arg,
                   spentCount, votedFor>>

\* The wallet scans the output.
CallScanTransaction ==
    /\ stealthOutput # <<>>
    /\ LET r == ScanTransaction(walletKeys, stealthOutput[1])
       IN  ret' = [NoCall EXCEPT !.op = "ScanTransaction",
                                 !.err = IF r.belongs THEN "true" ELSE "false",
                                 !.refApplied =
                                     (r.key = <<stealthOutput[1].stealthAddr.spendKey>>)]
    /\ UNCHANGED <<poolVars, txn, ledgerVars, engineVars, dbVars, nodeVars, walletVars, arg,
                   spentCount, votedFor>>

\* The wallet derives the key to spend the output.
CallDeriveSpendKey ==
    /\ stealthOutput # <<>>
    /\ LET r == DeriveSpendKey(walletKeys, stealthOutput[1])
       IN  ret' = [NoCall EXCEPT !.op = "DeriveSpendKey", !.err = r.err,
                                 !.refApplied = (r.key # <<>>)]
    /\ UNCHANGED <<poolVars, txn, ledgerVars, engineVars, dbVars, nodeVars, walletVars, arg,
                   spentCount, votedFor>>

\* GenerateWalletKeys: any two key pairs.
InitWallet ==
    /\ utxos = <<>>
    /\ spentKeyImages = {}
    /\ validators = [k \in PublicKeys |-> 0]
    /\ valCells = <<>>
    /\ height = 0
    /\ InitEngineVars
    /\ InitDbVars
    /\ InitNodeVars
    /\ walletKeys \in [viewPriv : SecretKeys, spendPriv : SecretKeys]
    /\ stealthOutput = <<>>
    /\ InitTxn
    /\ InitPoolVars
    /\ InitObservers

NextWallet ==
    \/ \E ephemeralPriv \in SecretKeys : CallGenerateStealthAddress(ephemeralPriv)
    \/ CallScanTransaction
    \/ CallDeriveSpendKey

SpecWallet == InitWallet /\ [][NextWallet]_vars

(***************************************************************************)
(* Properties of the ledger.                                               *)
(***************************************************************************)
\* C1: a failing ApplyBlock leaves the spent-key-image set, the UTXO map and
\* the height exactly as they were before the call.
C1_ApplyBlockAllOrNothing ==
    [][(ret'.op = "ApplyBlock" /\ ret'.err # Ok)
         => UNCHANGED <<spentKeyImages, utxos, height>>]_vars

\* C2: every key image spent by a transaction of an applied block is (and
\* stays) in the spent set, no two transactions of applied blocks spend the same
\* key image, and a later transaction or block that names such a key image is
\* rejected (ValidateTransaction: "key image already spent").
C2_NoDoubleSpend ==
    /\ \A k \in KeyImages : spentCount[k] > 0 => k \in spentKeyImages
    /\ \A k \in KeyImages : spentCount[k] <= 1
    /\ (ret.op = "ValidateTransaction" /\ ret.refApplied) => ret.err = ErrKeyImageSpent
    /\ (ret.op = "ApplyBlock" /\ ret.refApplied) => ret.err # Ok

\* A block of the right height was rejected for naming a key image that an
\* applied block had spent.
C2_Witness ==
    /\ ret.op = "ApplyBlock" /\ ret.refApplied /\ ret.nextHeight
    /\ \E k \in KeyImages : spentCount[k] = 1

\* C3: ApplyBlock succeeds only for header height = height + 1 and then sets
\* the height to it; any other height is rejected with the state unchanged; the
\* height never decreases and never skips a value.
C3_HeightMonotonic ==
    [][/\ (height' = height \/ height' = height + 1)
       /\ (ret'.op = "ApplyBlock" /\ ret'.err = Ok)
            => (ret'.nextHeight /\ height' = height + 1)
       /\ (ret'.op = "ApplyBlock" /\ ~ret'.nextHeight)
            => (ret'.err = ErrInvalidHeight /\ UNCHANGED ledgerVars)]_vars

\* After MaxHeight applied blocks, a block of another height was rejected.
C3_Witness ==
    /\ height = MaxHeight
    /\ ret.op = "ApplyBlock" /\ ~ret.nextHeight /\ ret.err = ErrInvalidHeight

\* C4: a transaction that ValidateTransaction accepts has input amounts whose
\* integer sum equals the integer sum of the output amounts plus the fee.
C4_BalanceConservation ==
    (ret.op = "ValidateTransaction" /\ ret.err = Ok) => TrueBalanced(arg)

\* C5: ValidateTransaction changes nothing of the ledger, whatever it returns.
C5_ValidateReadOnly ==
    [][ret'.op = "ValidateTransaction" => UNCHANGED ledgerVars]_vars

\* ValidateTransaction has rejected a spent key image on a ledger that holds
\* outputs.
C5_Witness ==
    /\ ret.op = "ValidateTransaction" /\ ret.err = ErrKeyImageSpent
    /\ DOMAIN utxos # {} /\ height > 0

(***************************************************************************)
(* Properties of the consensus engine.                                     *)
(***************************************************************************)
\* C6: FinalizeBlock succeeds if and only if the stake of the validators whose
\* votes are held is at least two thirds of the total stake, rounded up; its
\* quorum check (HasQuorum) answers the same.
C6_FinalizeIffQuorum ==
    /\ ret.op = "FinalizeBlock" => (ret.err = Ok <=> ret.quorum)
    /\ ret.op = "HasQuorum" => (ret.err = "true" <=> ret.quorum)

\* C7: a call of FinalizeBlock returns: it is never left waiting for the engine
\* mutex while holding it.
C7_FinalizeBlockReturns ==
    ~(ret.op = "FinalizeBlock" /\ ret.err = Blocked /\ mu.writer)

\* C8: a valid vote of an active validator that conflicts with its stored vote
\* of the same round (another block hash) is rejected as a double vote, the
\* stored vote stays, the validator loses a tenth of its stake, its slashCount
\* grows by one, it is inactive from slashCount 3 on, and no other validator's
\* record changes.
C8_EquivocationSlashed ==
    [][(ret'.op = "CollectVote" /\ ret'.conflict = "different") =>
         LET v == ret'.validator
             old == valCells[validators[v]]
             new == valCells'[validators'[v]]
         IN  /\ ret'.err = ErrDoubleVote
             /\ votes' = votes
             /\ new.stakedAmount = old.stakedAmount - (old.stakedAmount \div 10)
             /\ new.slashCount = old.slashCount + 1
             /\ new.active = (new.slashCount < 3)
             /\ \A w \in PublicKeys \ {v} :
                   validators[w] # 0 =>
                     /\ validators'[w] # 0
                     /\ valCells'[validators'[w]] = valCells[validators[w]]]_vars

\* C9: CollectVote changes a validator's record only for a vote that conflicts
\* with the stored vote of its round; a vote that the engine already holds
\* changes none.
C9_RedeliveryHarmless ==
    [][(ret'.op = "CollectVote" /\ ret'.conflict # "different")
         => UNCHANGED <<validators, valCells>>]_vars

(***************************************************************************)
(* Properties of the node.                                                 *)
(***************************************************************************)
\* C10: handleBlock applies a block (ledger, database, chain tip) only when
\* votes of at least the quorum stake have been collected for the block's
\* header hash.
C10_AppliedOnlyAfterQuorum ==
    (ret.op = "handleBlock" /\ ret.err = Ok) => ret.quorum

\* C11: a validator node of the single validator V (stake 100), started on a
\* new data directory with an empty pool, whose proposer ticker keeps firing,
\* eventually has ledger height 1 and latest_height 1 on disk.
C11_HappyPathBlock ==
    (/\ validatorSet = <<1>>
     /\ valCells = <<NewValidatorState(1, 100, 0)>>
     /\ validatorPub = 1
     /\ txPool = <<>>
     /\ DatabaseState = NewDatabase)
        => <>(height = 1 /\ GetLatestHeight(DatabaseState) = 1)

(***************************************************************************)
(* Properties of staking and proposer selection.                           *)
(***************************************************************************)
\* C12: the engines refreshed from one ledger give the same answer of
\* SelectProposer for a (height, round), whatever order the range over the
\* registry took at the refresh.
C12_ProposerDeterministic ==
    ret.op = "SelectProposer" => Cardinality(ret.proposers) <= 1

\* C13: with a total stake of 0, SelectProposer returns an error and no
\* proposer; it does not panic.
C13_ZeroStakeIsError ==
    (ret.op = "SelectProposer" /\ totalStake = 0)
        => (ret.err \notin {Ok, Panic} /\ ret.validator = 0)

\* C14: the engine's total stake is the sum of stakedAmount over the
\* validators that are active in the ledger.
C14_TotalStakeIsActiveStake == totalStake = ActiveStake

\* C15: every validator that GetActiveValidators returns (UpdateValidatorSet
\* keeps its result as the validator set) is active with a positive stake.
C15_ActiveHaveStake ==
    ret.op = "UpdateValidatorSet" =>
        \A i \in 1 .. Len(validatorSet) :
            /\ valCells[validatorSet[i]].active
            /\ valCells[validatorSet[i]].stakedAmount > 0

\* C16: ProcessStakingTx rejects a staking transaction that the named
\* validator's key has not signed, and leaves the registry as it was.
C16_StakingTxAuthenticated ==
    [][(ret'.op = "ProcessStakingTx" /\ arg'.signature.signer # arg'.validator)
         => (ret'.err # Ok /\ UNCHANGED <<validators, valCells>>)]_vars

(***************************************************************************)
(* Properties of ring signatures.                                          *)
(***************************************************************************)
\* C17: the block handler rejects a block that holds a transaction whose ring
\* signature does not verify over the transaction's message, with no key image
\* marked spent and no output added.
C17_RingSignatureVerified ==
    [][(/\ ret'.op = "handleBlock"
        /\ \E i \in 1 .. Len(arg'.transactions) : ~RingVerifies(arg'.transactions[i]))
         => (ret'.err # Ok /\ UNCHANGED <<spentKeyImages, utxos>>)]_vars

(***************************************************************************)
(* Properties of stealth addresses.                                        *)
(***************************************************************************)
\* C18: the output GenerateStealthAddress makes for a wallet's address is
\* recognised by the wallet's ScanTransaction, which returns the output's
\* one-time spend key, and DeriveSpendKey succeeds on it with a key.
C18_StealthRoundTrip ==
    /\ ret.op = "ScanTransaction" => (ret.err = "true" /\ ret.refApplied)
    /\ ret.op = "DeriveSpendKey" => (ret.err = Ok /\ ret.refApplied)

(***************************************************************************)
(* The block store on its own: SaveBlock as the steps of its db.Update     *)
(* transaction, with GetBlock and GetBlockByHash reading between them.     *)
(***************************************************************************)
\* The blocks handed to SaveBlock: every height and proposer, the other
\* header fields fixed.
StorageBlocks ==
    { [header |-> [height |-> h, timestamp |-> 0, prevBlockHash |-> ZeroHash,
                   txRoot |-> computeTxRoot(<<>>), stateRoot |-> ZeroHash,
                   proposer |-> p, round |-> 0],
       transactions |-> <<>>, validators |-> <<>>] :
      h \in 1 .. MaxHeight, p \in PublicKeys }

\* SaveBlock is called: db.Update opens a transaction and the closure
\* serializes the block.
SaveBlockBegin(block) ==
    /\ txn.pc = "idle"
    /\ txn' = [pc |-> "setHeight", pending |-> <<>>, before |-> DatabaseState]
    /\ arg' = block
    /\ ret' = [NoCall EXCEPT !.op = "db.Update"]
    /\ UNCHANGED <<poolVars, ledgerVars, engineVars, dbVars, nodeVars, walletVars, spentCount,
                   votedFor>>

\* The closure returned an error or the commit failed: the transaction is
\* discarded and SaveBlock returns the error.
SaveBlockFails(err) ==
    /\ txn' = [txn EXCEPT !.pc = "idle", !.pending = <<>>]
    /\ ret' = [NoCall EXCEPT !.op = "SaveBlock", !.err = err]
    /\ UNCHANGED dbVars

\* One txn.Set of the closure, for the key the call is at.
SaveBlockSet(pc, key, nextPc) ==
    /\ txn.pc = pc
    /\ \/ LET t == TxnSet([db |-> DatabaseState, pending |-> txn.pending],
                          key, MarshalBlock(arg))
          IN  /\ SetDatabase(t.db)
              /\ txn' = [txn EXCEPT !.pc = nextPc, !.pending = t.pending]
              /\ UNCHANGED ret
       \/ SaveBlockFails(ErrTxnSet)
    /\ UNCHANGED <<poolVars, ledgerVars, engineVars, nodeVars, walletVars, arg, spentCount,
                   votedFor>>

\* txn.Set(key, data): save by height.
SaveBlockSetHeight ==
    SaveBlockSet("setHeight", makeBlockKey(arg.header.height), "setHash")

\* txn.Set(hashKey, data): save by hash.
SaveBlockSetHash ==
    SaveBlockSet("setHash", makeBlockHashKey(HeaderHash(arg.header)), "commit")

\* The closure returned nil: db.Update commits the transaction, or fails to.
SaveBlockCommit ==
    /\ txn.pc = "commit"
    /\ \/ /\ SetDatabase(Commit(DatabaseState, txn.pending))
          /\ txn' = [txn EXCEPT !.pc = "idle", !.pending = <<>>]
          /\ ret' = [NoCall EXCEPT !.op = "SaveBlock"]
       \/ SaveBlockFails(ErrCommit)
    /\ UNCHANGED <<poolVars, ledgerVars, engineVars, nodeVars, walletVars, arg, spentCount,
                   votedFor>>

\* What a Get call returns.
GetResult(op, key, found) ==
    [NoCall EXCEPT !.op = op, !.key = key, !.value = found,
                   !.err = IF found = <<>> THEN ErrKeyNotFound ELSE Ok]

\* A reader calls GetBlock, at any time.
CallGetBlock(h) ==
    /\ ret' = GetResult("GetBlock", h, GetBlock(DatabaseState, h))
    /\ UNCHANGED <<poolVars, txn, ledgerVars, engineVars, dbVars, nodeVars, walletVars, arg,
                   spentCount, votedFor>>

\* A reader calls GetBlockByHash, at any time.
CallGetBlockByHash(hash) ==
    /\ ret' = GetResult("GetBlockByHash", hash, GetBlockByHash(DatabaseState, hash))
    /\ UNCHANGED <<poolVars, txn, ledgerVars, engineVars, dbVars, nodeVars, walletVars, arg,
                   spentCount, votedFor>>

InitStorage ==
    /\ utxos = <<>>
    /\ spentKeyImages = {}
    /\ validators = [k \in PublicKeys |-> 0]
    /\ valCells = <<>>
    /\ height = 0
    /\ InitEngineVars
    /\ InitDbVars
    /\ InitNodeVars
    /\ InitWalletVars
    /\ InitTxn
    /\ InitPoolVars
    /\ InitObservers

NextStorage ==
    \/ \E block \in StorageBlocks : SaveBlockBegin(block)
    \/ SaveBlockSetHeight
    \/ SaveBlockSetHash
    \/ SaveBlockCommit
    \/ \E h \in 1 .. MaxHeight : CallGetBlock(h)
    \/ \E block \in StorageBlocks : CallGetBlockByHash(HeaderHash(block.header))

SpecStorage == InitStorage /\ [][NextStorage]_vars

\* C19: every block saved with SaveBlock is returned, equal, by GetBlock of
\* its height and by GetBlockByHash of its header hash, at once and after
\* every later SaveBlock of another block: a successful SaveBlock makes both
\* lookups of its block return that block and leaves every lookup that
\* returned another block returning it.
C19_PersistenceRoundTrip ==
    [][(ret'.op = "SaveBlock" /\ ret'.err = Ok) =>
         /\ GetBlock(DatabaseState', arg.header.height) = <<arg>>
         /\ GetBlockByHash(DatabaseState', HeaderHash(arg.header)) = <<arg>>
         /\ \A h \in DOMAIN dbByHeight :
              GetBlock(DatabaseState, h) # <<arg>> =>
                GetBlock(DatabaseState', h) = GetBlock(DatabaseState, h)
         /\ \A x \in DOMAIN dbByHash :
              GetBlockByHash(DatabaseState, x) # <<arg>> =>
                GetBlockByHash(DatabaseState', x) = GetBlockByHash(DatabaseState, x)]_vars

\* The two keys of the block SaveBlock was last called with hold its data.
BothKeysWritten ==
    /\ arg.header.height \in DOMAIN dbByHeight
    /\ dbByHeight[arg.header.height] = MarshalBlock(arg)
    /\ HeaderHash(arg.header) \in DOMAIN dbByHash
    /\ dbByHash[HeaderHash(arg.header)] = MarshalBlock(arg)

\* The database is as it was when SaveBlock was last called.
NoKeyChanged == DatabaseState = txn.before

\* C20: SaveBlock writes its two keys as one unit: what readers can see is
\* always either the database as it was before the call or one holding the
\* block under both keys; after a successful call it is the latter, after a
\* failed call the former.
C20_SaveBlockAtomic ==
    arg # NoArg =>
      /\ NoKeyChanged \/ BothKeysWritten
      /\ (ret.op = "SaveBlock" /\ ret.err = Ok) => BothKeysWritten
      /\ (ret.op = "SaveBlock" /\ ret.err # Ok) => NoKeyChanged

\* A reader looked up the height of the block being saved while both writes
\* were buffered and found no block there.
C20_Witness ==
    /\ txn.pc = "commit"
    /\ Len(txn.pending) = 2
    /\ ret.op = "GetBlock"
    /\ ret.key = arg.header.height
    /\ ret.err = ErrKeyNotFound

(***************************************************************************)
(* The node and its data directory: a node started on the directory a      *)
(* previous run left, its block handler on a disk that can refuse a write. *)
(***************************************************************************)
\* The block of height 1 a previous run persisted, proposed by p.
FirstBlock(p) ==
    [header |-> [height |-> 1, timestamp |-> 0,
                 prevBlockHash |-> HeaderHash(GenesisBlock.header),
                 txRoot |-> computeTxRoot(<<>>), stateRoot |-> ZeroHash,
                 proposer |-> p, round |-> 0],
     transactions |-> <<>>, validators |-> <<>>]

\* The data directories with a chain: block 0 only, or blocks 0 and 1 as
\* handleBlock persisted them in a previous run.
ChainDirectories ==
    {SaveBlock(NewDatabase, GenesisBlock)} \cup
    {UpdateLatestHeight(
         SaveBlock(SaveBlock(NewDatabase, GenesisBlock), FirstBlock(p)), 1) :
       p \in PublicKeys}

\* NewNode on such a directory: the ledger starts from the genesis file at
\* height 0 whatever the directory holds (syncBlockchain restores nothing);
\* the stored block 1 was proposed by the validator selected for it.
InitPersist ==
    /\ InitNodeOn(ChainDirectories)
    /\ GetBlock(DatabaseState, 1) # <<>> =>
         GetBlock(DatabaseState, 1)[1].header.proposer =
           SelectProposer(EngineState, LedgerState, 1, 0).proposer

\* The blocks delivered to this node: those of the node specification with
\* an acceptable timestamp.
PersistBlocks == {block \in ReceivedBlocks : block.header.timestamp <= Now + MaxClockDrift}

NextPersist ==
    \/ \E block \in PersistBlocks : CallHandleBlock(block, FALSE)
    \/ \E block \in PersistBlocks : CallHandleBlockWriteFails(block)

SpecPersist == InitPersist /\ [][NextPersist]_vars

\* C21: GetLatestHeight is 0 while latest_height was never written and
\* otherwise the height of the last successful UpdateLatestHeight, which
\* only a handleBlock whose SaveBlock succeeded makes; whenever it reads
\* h >= 1, GetBlock(h) returns a block of height h.
C21_LatestHeightTracksSavedBlock ==
    [][/\ dbLatestHeight' = <<>> => GetLatestHeight(DatabaseState') = 0
       /\ (ret'.op = "handleBlock" /\ ret'.err = Ok)
            => /\ height' = AddU64(height, 1)
               /\ GetLatestHeight(DatabaseState') = height'
               /\ GetBlock(DatabaseState', height') # <<>>
       /\ ~(ret'.op = "handleBlock" /\ ret'.err = Ok)
            => dbLatestHeight' = dbLatestHeight
       /\ GetLatestHeight(DatabaseState') >= 1
            => /\ GetLatestBlock(DatabaseState') # <<>>
               /\ GetLatestBlock(DatabaseState')[1].header.height =
                    GetLatestHeight(DatabaseState')]_vars

\* The handler persisted a block of height 2 and the tip reads 2.
C21_Witness ==
    /\ ret.op = "handleBlock"
    /\ ret.err = Ok
    /\ height = 2
    /\ GetLatestHeight(DatabaseState) = 2

\* C22: once the block handler has returned, with or without a write error,
\* the ledger height does not exceed the persisted latest_height.
C22_NoTipAdvanceOnWriteError ==
    ret.op = "handleBlock" => height <= GetLatestHeight(DatabaseState)

\* C25: the block stored at a height never changes and the persisted
\* latest_height never decreases, whatever blocks and votes arrive.
C25_FinalityAbsolute ==
    [][/\ \A h \in DOMAIN dbByHeight :
            GetBlock(DatabaseState', h) = GetBlock(DatabaseState, h)
       /\ GetLatestHeight(DatabaseState') >= GetLatestHeight(DatabaseState)]_vars

(***************************************************************************)
(* The transaction pool under its two goroutines: the handler of the        *)
(* transaction topic and the ticker of produceBlocks.  Node.txPool has no   *)
(* lock, so the statements of the two interleave at every access of it.     *)
(***************************************************************************)
Range(seq) == {seq[i] : i \in 1 .. Len(seq)}

\* The ticker's call gets past its early returns to "txs := n.txPool".
ReachesPool(s, e, db, pub) ==
    LET selected == SelectProposer(e, s, AddU64(s.height, 1), 0)
    IN  /\ selected.err = Ok
        /\ selected.proposer = pub
        /\ GetLatestBlock(db) # <<>>

\* handleTransaction up to and including ValidateTransaction; each
\* transaction is submitted once.
HandlerValidate(tx) ==
    /\ goroutines.handler.pc = "idle"
    /\ tx \notin poolHistory.accepted
    /\ Cardinality(poolHistory.accepted) < MaxPool
    /\ LET r == handleTransaction(LedgerState, <<>>, tx)
       IN  IF r.err # Ok
           THEN /\ ret' = [NoCall EXCEPT !.op = "handleTransaction", !.err = r.err,
                                         !.cause = r.cause]
                /\ UNCHANGED goroutines
           ELSE /\ goroutines' = [goroutines EXCEPT !.handler.pc = "load",
                                                    !.handler.tx = tx]
                /\ UNCHANGED ret
    /\ UNCHANGED <<lockVars, ledgerVars, engineVars, dbVars, nodeVars, walletVars, txn,
                   poolHistory, arg, spentCount, votedFor>>

\* "append(n.txPool, &tx)": the handler reads the pool's slice.
HandlerLoad ==
    /\ goroutines.handler.pc = "load"
    /\ goroutines' = [goroutines EXCEPT !.handler.pc = "store",
                                        !.handler.pool = txPool]
    /\ UNCHANGED <<lockVars, ledgerVars, engineVars, dbVars, nodeVars, walletVars, txn,
                   poolHistory, ret, arg, spentCount, votedFor>>

\* "n.txPool = ...": the handler stores the appended slice and returns nil.
HandlerStore ==
    /\ goroutines.handler.pc = "store"
    /\ txPool' = Append(goroutines.handler.pool, goroutines.handler.tx)
    /\ poolHistory' = [poolHistory EXCEPT
                         !.accepted = @ \cup {goroutines.handler.tx}]
    /\ goroutines' = [goroutines EXCEPT !.handler = NoGoroutines.handler]
    /\ ret' = [NoCall EXCEPT !.op = "handleTransaction"]
    /\ UNCHANGED <<lockVars, ledgerVars, engineVars, dbVars, validatorPub, lastBroadcast,
                   walletVars, txn, arg, spentCount, votedFor>>

\* The ticker fires: proposeBlock returns early, or goes on to the pool.
TickerBegin ==
    /\ goroutines.ticker.pc = "idle"
    /\ validatorPub # 0
    /\ CanLock(mu)
    /\ IF ReachesPool(LedgerState, EngineState, DatabaseState, validatorPub)
       THEN /\ goroutines' = [goroutines EXCEPT !.ticker.pc = "take"]
            /\ UNCHANGED ret
       ELSE /\ ret' = [NoCall EXCEPT
                         !.op = "proposeBlock",
                         !.err = proposeBlock(LedgerState, EngineState, DatabaseState,
                                              <<>>, validatorPub, Now, <<>>).err]
            /\ UNCHANGED goroutines
    /\ UNCHANGED <<lockVars, ledgerVars, engineVars, dbVars, nodeVars, walletVars, txn,
                   poolHistory, arg, spentCount, votedFor>>

\* "txs := n.txPool"
TickerTake ==
    /\ goroutines.ticker.pc = "take"
    /\ goroutines' = [goroutines EXCEPT !.ticker.pc = "clear", !.ticker.txs = txPool]
    /\ UNCHANGED <<lockVars, ledgerVars, engineVars, dbVars, nodeVars, walletVars, txn,
                   poolHistory, ret, arg, spentCount, votedFor>>

\* "n.txPool = make([]*types.Transaction, 0)"
TickerClear ==
    /\ goroutines.ticker.pc = "clear"
    /\ txPool' = <<>>
    /\ goroutines' = [goroutines EXCEPT !.ticker.pc = "propose"]
    /\ UNCHANGED <<lockVars, ledgerVars, engineVars, dbVars, validatorPub, lastBroadcast,
                   walletVars, txn, poolHistory, ret, arg, spentCount, votedFor>>

\* ProposeBlock(txs, prevBlock), VoteForBlock and the two broadcasts.
TickerPropose ==
    /\ goroutines.ticker.pc = "propose"
    /\ \E order \in KeyOrders(DOMAIN utxos) :
          LET r == proposeBlock(LedgerState, EngineState, DatabaseState,
                                goroutines.ticker.txs, validatorPub, Now, order)
          IN  /\ lastBroadcast' = IF r.broadcast = <<>> THEN lastBroadcast
                                  ELSE r.broadcast
              /\ poolHistory' =
                   [poolHistory EXCEPT
                      !.proposed = IF r.broadcast = <<>> THEN @
                                   ELSE @ \cup Range(r.broadcast[1].transactions)]
              /\ ret' = [NoCall EXCEPT !.op = "proposeBlock", !.err = r.err,
                                       !.nextHeight = (r.broadcast # <<>>)]
    /\ goroutines' = [goroutines EXCEPT !.ticker = NoGoroutines.ticker]
    /\ UNCHANGED <<lockVars, ledgerVars, engineVars, dbVars, txPool, validatorPub, walletVars,
                   txn, arg, spentCount, votedFor>>

NextPool ==
    \/ \E tx \in PoolTransactions : HandlerValidate(tx)
    \/ HandlerLoad
    \/ HandlerStore
    \/ TickerBegin
    \/ TickerTake
    \/ TickerClear
    \/ TickerPropose

SpecPool == InitProposer /\ [][NextPool]_vars

\* C23: in every interleaving of handleTransaction and proposeBlock, once
\* both have returned, every transaction handleTransaction accepted is in the
\* transaction list of a proposed block or still in the pool.
C23_PoolLosesNothing ==
    (goroutines = NoGoroutines) =>
        poolHistory.accepted \subseteq (poolHistory.proposed \cup Range(txPool))

(***************************************************************************)
(* Transaction.Hash on its own: pairs of transactions and their hashes.    *)
(***************************************************************************)
\* Two stealth addresses, the second the first with its keys exchanged.
HashAddrs == {[viewKey |-> 1, spendKey |-> 2], [viewKey |-> 2, spendKey |-> 1]}

\* The transactions that are hashed: up to two inputs and two outputs, the
\* fee one of the fields Hash does not read.
HashTransactions ==
    [inputs : SeqsOf([keyImage : KeyImages, amount : {1}], 0, 2),
     outputs : SeqsOf([amount : {1}, stealthAddr : HashAddrs], 0, 2),
     fee : Fees, ringSignature : {<<>>}]

\* The ordered key images of the inputs.
KeyImageSeq(tx) == [i \in 1 .. Len(tx.inputs) |-> tx.inputs[i].keyImage]

\* The ordered (viewKey, spendKey) pairs of the outputs.
OutputKeySeq(tx) ==
    [i \in 1 .. Len(tx.outputs) |->
        <<tx.outputs[i].stealthAddr.viewKey, tx.outputs[i].stealthAddr.spendKey>>]

\* Hash is called on the two transactions.
CallHash ==
    /\ ret.op = "none"
    /\ ret' = [NoCall EXCEPT !.op = "Hash", !.key = TxHash(arg[1]),
                             !.value = TxHash(arg[2])]
    /\ UNCHANGED <<ledgerVars, engineVars, dbVars, nodeVars, walletVars, txn,
                   poolVars, arg, spentCount, votedFor>>

InitHash ==
    /\ utxos = <<>>
    /\ spentKeyImages = {}
    /\ validators = [k \in PublicKeys |-> 0]
    /\ valCells = <<>>
    /\ height = 0
    /\ InitEngineVars
    /\ InitDbVars
    /\ InitNodeVars
    /\ InitWalletVars
    /\ InitTxn
    /\ InitPoolVars
    /\ ret = NoCall
    /\ arg \in HashTransactions \X HashTransactions
    /\ spentCount = [k \in KeyImages |-> 0]
    /\ votedFor = {}

NextHash == CallHash

SpecHash == InitHash /\ [][NextHash]_vars

\* C24: two transactions have the same hash (input) exactly when their
\* ordered key images and their ordered output (viewKey, spendKey) pairs are
\* equal; nothing else has an influence.
C24_HashOfKeyImagesAndOutputKeys ==
    ret.op = "Hash" =>
        ((ret.key = ret.value) <=>
            /\ KeyImageSeq(arg[1]) = KeyImageSeq(arg[2])
            /\ OutputKeySeq(arg[1]) = OutputKeySeq(arg[2]))

(***************************************************************************)
(* The UTXO set: blocks whose transactions spend the outputs earlier ones  *)
(* created, each input naming the key image of the output it consumes.     *)
(***************************************************************************)
\* crypto.GenerateKeyImage: SHA-256 of the private key followed by the output
\* key, represented by its preimage.
GenerateKeyImage(privKey, outputKey) == <<"keyImage", privKey, outputKey>>

\* The private keys that own outputs.
OwnerKeys == {1, 2}

\* The output paid to the one-time key of private key x.
OutputTo(x) ==
    [amount |-> 1,
     stealthAddr |-> [viewKey |-> PublicKeyOf(x), spendKey |-> PublicKeyOf(x)]]

\* The key image the owner of an output puts in the input that spends it.
KeyImageOfOutput(output) ==
    LET x == CHOOSE priv \in OwnerKeys : PublicKeyOf(priv) = output.stealthAddr.spendKey
    IN  GenerateKeyImage(x, output.stealthAddr.spendKey)

\* A transaction that only creates an output for x, and one that spends the
\* output of x into an output for another owner y.
UtxoTransactions ==
    {[inputs |-> <<>>, outputs |-> <<OutputTo(x)>>, fee |-> 0,
      ringSignature |-> <<[keyImage |-> 1]>>] : x \in OwnerKeys}
    \cup
    {[inputs |-> <<[keyImage |-> KeyImageOfOutput(OutputTo(p[1])), amount |-> 1]>>,
      outputs |-> <<OutputTo(p[2])>>, fee |-> 0,
      ringSignature |-> <<[keyImage |-> 1]>>] :
        p \in {q \in OwnerKeys \X OwnerKeys : q[1] # q[2]}}

UtxoBlocks ==
    [header : [height : 1 .. (MaxHeight + 1)],
     transactions : SeqsOf(UtxoTransactions, 1, 1)]

\* State.GetAllUTXOs: the entries with Spent = false.
GetAllUTXOs(s) == {s.utxos[k] : k \in {j \in DOMAIN s.utxos : ~s.utxos[j].spent}}

\* ApplyBlock on one of these blocks.
CallApplySpendingBlock(block) ==
    LET r == ApplyBlock(LedgerState, block)
    IN  /\ SetLedger(r.state)
        /\ ret' = [NoCall EXCEPT !.op = "ApplyBlock", !.err = r.err]
        /\ UNCHANGED <<engineVars, dbVars, nodeVars, walletVars, txn, poolVars, arg,
                       spentCount, votedFor>>

NextUtxo == \E block \in UtxoBlocks : CallApplySpendingBlock(block)

SpecUtxo == InitLedger /\ [][NextUtxo]_vars

\* C26: the outputs GetAllUTXOs reports are exactly the outputs applied
\* transactions created whose key image has not been recorded as spent.
C26_UnspentAreCreatedMinusSpent ==
    GetAllUTXOs(LedgerState) =
        {utxos[k] : k \in {j \in DOMAIN utxos :
                             KeyImageOfOutput(utxos[j].output) \notin spentKeyImages}}

(***************************************************************************)
(* The running node with honest validators: blocks arrive one after the    *)
(* other, and each active validator votes once for the latest block.       *)
(***************************************************************************)
\* The votes honest validators send now: signed by the validator itself, on
\* the hash of the latest block, by a registered active validator that has
\* no vote collected for that block yet.
HonestVotes ==
    LET latestBlock == GetLatestBlock(DatabaseState)
    IN  {vote \in ReceivedVotes :
            /\ latestBlock # <<>>
            /\ latestBlock[1].header.height >= 1
            /\ vote.signature.signer = vote.validator
            /\ vote.signature.hash = HeaderHash(latestBlock[1].header)
            /\ vote.round = currentRound
            /\ validators[vote.validator] # 0
            /\ valCells[validators[vote.validator]].active
            /\ <<vote.validator, vote.signature.hash>> \notin votedFor}

NextHonest ==
    \/ \E block \in PersistBlocks : CallHandleBlock(block, FALSE)
    \/ \E vote \in HonestVotes : CallHandleVote(vote)

SpecHonest == InitNode /\ [][NextHonest]_vars

\* C27: in the running node a validator that casts one vote for each
\* successive block has every one of these votes stored and is never
\* slashed.
C27_HonestVotesStored ==
    /\ ret.op = "handleVote" => ret.err = Ok
    /\ \A i \in 1 .. Len(valCells) : valCells[i].slashCount = 0

(***************************************************************************)
(* CollectVote on its own, its arguments and the first votes recorded.     *)
(***************************************************************************)
NextVotes ==
    \E vote \in Votes, blockHash \in BlockHashes : CallCollectVoteRecorded(vote, blockHash)

\* An engine over the registry of one validator; key 2 is unknown to it.
InitVotes == InitNodeWith({<<NewValidatorState(1, 100, 0)>>}, {NewDatabase})

SpecVotes == InitVotes /\ [][NextVotes]_vars

\* C28: CollectVote rejects a vote of a validator the ledger does not know,
\* of an inactive validator, and a vote whose signature does not verify over
\* the block hash; it then stores no vote, slashes nobody and leaves the vote
\* map and the registry as they were.
C28_InvalidVoteRejected ==
    [][(/\ ret'.op = "CollectVote"
        /\ \/ validators[arg'[1].validator] = 0
           \/ ~valCells[validators[arg'[1].validator]].active
           \/ arg'[1].signature.signer # arg'[1].validator
           \/ arg'[1].signature.hash # arg'[2])
         => /\ ret'.err \in {ErrUnknownValidator, ErrInactiveValidator,
                             ErrInvalidSignature}
            /\ UNCHANGED <<votes, validators, valCells>>]_vars

\* A vote with a bad signature was rejected while the engine held a vote.
C28_Witness ==
    /\ ret.op = "CollectVote"
    /\ ret.err = ErrInvalidSignature
    /\ \E k \in PublicKeys : votes[k] # <<>>

\* C29: the vote the engine holds for a validator is the first valid vote
\* received from it at that vote's round, and a later valid vote of the
\* validator at a round, for another block hash than its first one of that
\* round, slashes the validator.
C29_FirstVoteWinsAndEquivocationSlashed ==
    [][ret'.op = "CollectVote" =>
         LET vote == arg'[1]
             v == vote.validator
         IN  /\ \A k \in PublicKeys :
                   votes'[k] # <<>> =>
                     <<k, votes'[k][1].round, votes'[k][1].signature.hash>> \in votedFor'
             /\ (/\ ValidVote(vote, arg'[2])
                 /\ \E f \in votedFor :
                       f[1] = v /\ f[2] = vote.round /\ f[3] # arg'[2])
                  => /\ ret'.err = ErrDoubleVote
                     /\ valCells'[validators[v]].slashCount =
                          valCells[validators[v]].slashCount + 1]_vars

(***************************************************************************)
(* ProcessStakingTx at the heights of a chain.                             *)
(***************************************************************************)
\* The staking transactions signed by their validator.
SignedStakingTxs == {stx \in StakingTxs : stx.signature.signer = stx.validator}

\* ProcessStakingTx(stx, atHeight), the specification keeping both in arg.
CallProcessStakingTxAt(stx, atHeight) ==
    /\ LET r == ProcessStakingTx(LedgerState, stx, atHeight)
       IN  /\ SetLedger(r.state)
           /\ ret' = [NoCall EXCEPT !.op = "ProcessStakingTx", !.err = r.err,
                                    !.validator = stx.validator]
    /\ arg' = <<stx, atHeight>>
    /\ UNCHANGED <<engineVars, dbVars, nodeVars, walletVars, txn, poolVars,
                   spentCount, votedFor>>

NextBond ==
    \E stx \in SignedStakingTxs, atHeight \in Heights : CallProcessStakingTxAt(stx, atHeight)

SpecBond == InitStaking /\ [][NextBond]_vars

\* C30: a Bond for a key not in the registry adds a validator with the given
\* stake, active, joinedHeight the call's height and slashCount 0; a Bond for
\* a registered key fails and changes nothing; an Unbond of a registered
\* validator makes it inactive with unbondingUntil = height + 100 and keeps
\* its stake and slashCount; an Unbond of an unknown key fails and changes
\* nothing.
C30_StakingEffects ==
    [][ret'.op = "ProcessStakingTx" =>
         LET stx == arg'[1]
             h == arg'[2]
             k == stx.validator
             known == validators[k] # 0
         IN  /\ (stx.type = "bond" /\ ~known) =>
                  /\ ret'.err = Ok
                  /\ validators'[k] # 0
                  /\ valCells'[validators'[k]] =
                       [publicKey |-> k, stakedAmount |-> stx.amount, active |-> TRUE,
                        joinedHeight |-> h, unbondingUntil |-> 0, slashCount |-> 0]
             /\ (stx.type = "bond" /\ known) =>
                  (ret'.err # Ok /\ UNCHANGED <<validators, valCells>>)
             /\ (stx.type = "unbond" /\ known) =>
                  /\ ret'.err = Ok
                  /\ validators'[k] = validators[k]
                  /\ ~valCells'[validators[k]].active
                  /\ valCells'[validators[k]].unbondingUntil = h + 100
                  /\ valCells'[validators[k]].stakedAmount =
                       valCells[validators[k]].stakedAmount
                  /\ valCells'[validators[k]].slashCount =
                       valCells[validators[k]].slashCount
             /\ (stx.type = "unbond" /\ ~known) =>
                  (ret'.err # Ok /\ UNCHANGED <<validators, valCells>>)]_vars

\* A validator bonded at height 2 was unbonded at height 3.
C30_Witness ==
    /\ ret.op = "ProcessStakingTx"
    /\ ret.err = Ok
    /\ arg[1].type = "unbond"
    /\ arg[2] = 3
    /\ valCells[validators[arg[1].validator]].joinedHeight = 2
    /\ valCells[validators[arg[1].validator]].unbondingUntil = 103

(***************************************************************************)
(* SelectProposer over every selection value.                              *)
(***************************************************************************)
\* SelectProposer for a (height, round) whose hash, reduced modulo
\* e.totalStake, is the given selection value.
CallSelectProposerWith(selection) ==
    /\ CanRLock(mu)
    /\ Len(validatorSet) > 0
    /\ selection < totalStake
    /\ ret' = [NoCall EXCEPT !.op = "SelectProposer",
                             !.validator = selectByStake(EngineState, LedgerState,
                                                         selection, 1, 0)]
    /\ arg' = selection
    /\ UNCHANGED <<ledgerVars, engineVars, dbVars, nodeVars, walletVars, txn,
                   poolVars, spentCount, votedFor>>

\* The votes of round 0 signed by their validator.
SignedVotes ==
    {vote \in Votes : vote.round = 0 /\ vote.signature.signer = vote.validator}

\* The registries of the selection: a genesis validator alone, and with a
\* second validator bonded before the engine is built.
SelectRegistries ==
    LET s0 == InitializeGenesis(NewState, <<NewValidatorState(1, 34, 0)>>)
    IN  {s0, AddValidator(s0, 2, 66, 0).state}

\* NewNode, as in InitEngine, over the registries of the selection.
InitSelect ==
    /\ \E s0 \in SelectRegistries :
          \E order \in IterationOrders(s0) :
            LET e0 == UpdateValidatorSet(NewEngine, s0, order)
            IN  /\ utxos = s0.utxos
                /\ spentKeyImages = s0.spentKeyImages
                /\ validators = s0.validators
                /\ valCells = s0.valCells
                /\ height = s0.height
                /\ validatorSet = e0.validatorSet
                /\ totalStake = e0.totalStake
                /\ votes = e0.votes
                /\ currentRound = e0.currentRound
                /\ mu = e0.mu
    /\ InitDbVars
    /\ InitNodeVars
    /\ InitWalletVars
    /\ InitTxn
    /\ InitPoolVars
    /\ InitObservers

NextSelect ==
    \/ \E vote \in SignedVotes : CallCollectVote(vote, vote.signature.hash)
    \/ \E selection \in 0 .. 100 : CallSelectProposerWith(selection)

SpecSelect == InitSelect /\ [][NextSelect]_vars

RECURSIVE CumulativeStake(_)
\* The stake (as an integer) of the first i validators of the validator set.
CumulativeStake(i) ==
    IF i = 0 THEN 0
    ELSE CumulativeStake(i - 1) + valCells[validatorSet[i]].stakedAmount

\* C31: for a selection value below the total stake, SelectProposer returns
\* the first validator of the set whose cumulative stake exceeds the value
\* (there is one: the fallback to the first validator is not taken).
C31_FirstWithCumulativeAbove ==
    ret.op = "SelectProposer" =>
        \E i \in 1 .. Len(validatorSet) :
            /\ CumulativeStake(i) > arg
            /\ \A j \in 1 .. i - 1 : CumulativeStake(j) <= arg
            /\ ret.validator = valCells[validatorSet[i]].publicKey

(***************************************************************************)
(* ValidateTransaction on transactions that carry ring signatures.         *)
(***************************************************************************)
\* The transactions of one input and one output, with every ring signature.
RingSignedTransactions ==
    UNION {{[tx EXCEPT !.ringSignature = sig] : sig \in RingSignaturesFor(tx)} :
           tx \in {t \in Transactions : /\ Len(t.inputs) = 1
                                        /\ Len(t.outputs) = 1
                                        /\ t.ringSignature = <<>>}}

NextRingValidate ==
    \E tx \in RingSignedTransactions : CallValidateTransaction(tx, TRUE)

SpecRingValidate == InitValidate /\ [][NextRingValidate]_vars

\* C32: a transaction that ValidateTransaction accepts carries a ring
\* signature whose key image is the key image of each of its inputs.
C32_RingKeyImageMatchesInput ==
    (ret.op = "ValidateTransaction" /\ ret.err = Ok) =>
        /\ arg.ringSignature # <<>>
        /\ \A i \in 1 .. Len(arg.inputs) :
              arg.ringSignature[1].keyImage = arg.inputs[i].keyImage

(***************************************************************************)
(* The node's handlers on messages that fail validation.                   *)
(***************************************************************************)
NextDrop ==
    \/ \E block \in ReceivedBlocks : CallHandleBlock(block, FALSE)
    \/ \E tx \in NodeTransactions : CallHandleTransaction(tx)
    \/ \E vote \in HonestVotes : CallHandleVote(vote)

\* A node of the single validator 1 on a data directory that holds block 0.
InitDrop ==
    InitNodeWith({<<NewValidatorState(1, 100, 0)>>},
                 {SaveBlock(NewDatabase, GenesisBlock)})

SpecDrop == InitDrop /\ [][NextDrop]_vars

\* C33: when the block handler rejects a block because ValidateBlock fails,
\* and when the transaction handler rejects a transaction, the ledger, the
\* validator registry, the engine with its vote map, the pending pool and the
\* store are as before the call.
C33_RejectedMessageDropped ==
    [][(\/ ret'.op = "handleBlock" /\ ret'.err = ErrInvalidBlock
        \/ ret'.op = "handleTransaction" /\ ret'.err # Ok)
         => UNCHANGED <<ledgerVars, engineVars, dbVars, txPool>>]_vars

\* A transaction was rejected by a node that has applied a block and holds a
\* transaction in its pool.
C33_Witness ==
    /\ ret.op = "handleTransaction"
    /\ ret.err = ErrInvalidTransaction
    /\ ret.cause = ErrKeyImageSpent
    /\ txPool # <<>>
    /\ height >= 1
    /\ \E k \in PublicKeys : votes[k] # <<>>

(***************************************************************************)
(* The ledger on transactions of up to two inputs.                         *)
(***************************************************************************)
\* The number of inputs of the block's transactions that carry key image k.
InputsNaming(block, k) ==
    LET RECURSIVE count(_)
        count(j) ==
            IF j = 0 THEN 0
            ELSE count(j - 1) +
                 Cardinality({i \in 1 .. Len(block.transactions[j].inputs) :
                                 block.transactions[j].inputs[i].keyImage = k})
    IN  count(Len(block.transactions))

\* ApplyBlock, the specification keeping the block in arg.
CallApplyBlockRecorded(block) ==
    LET r == ApplyBlock(LedgerState, block)
    IN  /\ SetLedger(r.state)
        /\ ret' = [NoCall EXCEPT
                     !.op = "ApplyBlock", !.err = r.err,
                     !.nextHeight = (block.header.height = height + 1)]
        /\ arg' = block
        /\ spentCount' =
               IF r.err = Ok
               THEN [k \in KeyImages |-> spentCount[k] + InputsNaming(block, k)]
               ELSE spentCount
        /\ UNCHANGED <<engineVars, dbVars, nodeVars, walletVars, txn, poolVars,
                       votedFor>>

\* Transactions with a ring signature whose first input, if any, carries key
\* image 1.
SpendTransactions ==
    {tx \in Transactions :
        /\ tx.ringSignature # <<>>
        /\ Len(tx.inputs) >= 1 => tx.inputs[1].keyImage = 1}

\* The blocks of one such transaction, with amounts 1 and no fee.
SpendBlocks ==
    [header : [height : 1 .. MaxHeight],
     transactions : SeqsOf(SpendTransactions \cap BlockTransactions, 1, 1)]

NextSpend ==
    \/ \E tx \in SpendTransactions : CallValidateTransaction(tx, TRUE)
    \/ \E block \in SpendBlocks : CallApplyBlockRecorded(block)

SpecSpend == InitLedger /\ [][NextSpend]_vars

\* C34: no two inputs of a transaction that ValidateTransaction accepts carry
\* the same key image, and each key image is carried by at most one input of
\* the blocks ApplyBlock has applied.
C34_KeyImageConsumedOnce ==
    /\ (ret.op = "ValidateTransaction" /\ ret.err = Ok) =>
          \A i, j \in 1 .. Len(arg.inputs) :
              i # j => arg.inputs[i].keyImage # arg.inputs[j].keyImage
    /\ \A k \in KeyImages : spentCount[k] <= 1

(***************************************************************************)
(* The registry InitializeGenesis builds, and updates of its records.      *)
(***************************************************************************)
\* NewNode, the specification keeping genesis.InitialValidators in arg.
InitGenesis ==
    /\ \E g \in GenesisValidators :
          LET s0 == InitializeGenesis(NewState, g)
          IN  /\ arg = g
              /\ \E order \in IterationOrders(s0) :
                    LET e0 == UpdateValidatorSet(NewEngine, s0, order)
                    IN  /\ utxos = s0.utxos
                        /\ spentKeyImages = s0.spentKeyImages
                        /\ validators = s0.validators
                        /\ valCells = s0.valCells
                        /\ height = s0.height
                        /\ validatorSet = e0.validatorSet
                        /\ totalStake = e0.totalStake
                        /\ votes = e0.votes
                        /\ currentRound = e0.currentRound
                        /\ mu = e0.mu
    /\ InitDbVars
    /\ InitNodeVars
    /\ InitWalletVars
    /\ InitTxn
    /\ InitPoolVars
    /\ ret = NoCall
    /\ spentCount = [k \in KeyImages |-> 0]
    /\ votedFor = {}

\* An Unbond of the validator through ProcessStakingTx at the given height.
CallUnbond(validator, atHeight) ==
    /\ LET stx == [type |-> "unbond", validator |-> validator, amount |-> 0,
                   signature |-> [signer |-> validator]]
           r == ProcessStakingTx(LedgerState, stx, atHeight)
       IN  /\ SetLedger(r.state)
           /\ ret' = [NoCall EXCEPT !.op = "ProcessStakingTx", !.err = r.err,
                                    !.validator = validator]
    /\ UNCHANGED <<engineVars, dbVars, nodeVars, walletVars, txn, poolVars, arg,
                   spentCount, votedFor>>

NextGenesis ==
    \/ \E vote \in SignedVotes : CallCollectVote(vote, vote.signature.hash)
    \/ \E validator \in PublicKeys, atHeight \in ProposalHeights :
          CallUnbond(validator, atHeight)

SpecGenesis == InitGenesis /\ [][NextGenesis]_vars

\* C35: after InitializeGenesis the registry holds, for every initial
\* validator, a record with that validator's fields, and a slash or unbond of
\* one validator leaves the record of every other validator as it was.
C35_GenesisRecordsIndependent ==
    [][/\ ret.op = "none" =>
            \A i \in 1 .. Len(arg) :
                /\ validators[arg[i].publicKey] # 0
                /\ valCells[validators[arg[i].publicKey]] = arg[i]
       /\ ret'.op \in {"CollectVote", "ProcessStakingTx"} =>
            \A k \in PublicKeys \ {ret'.validator} :
                validators[k] # 0 =>
                    /\ validators'[k] # 0
                    /\ valCells'[validators'[k]] = valCells[validators[k]]]_vars

(***************************************************************************)
(* The block handler on blocks of two transactions.                        *)
(***************************************************************************)
\* The blocks of height 1 and 2 by validator 1 with up to two transactions.
PairBlocks ==
    {[header |-> [height |-> h, timestamp |-> 0, prevBlockHash |-> ph,
                  txRoot |-> computeTxRoot(txs), stateRoot |-> ZeroHash,
                  proposer |-> 1, round |-> 0],
      transactions |-> txs, validators |-> <<>>] :
        h \in 1 .. MaxHeight, ph \in KnownHashes,
        txs \in SeqsOf({tx \in PoolTransactions :
                            Len(tx.inputs) = 1 /\ Len(tx.outputs) = 1}, 0, 2)}

NextAgree == \E block \in PairBlocks : CallHandleBlock(block, TRUE)

SpecAgree == InitDrop /\ [][NextAgree]_vars

\* C36: ApplyBlock returns no error on a block of height S.height + 1 that
\* ValidateBlock has accepted against the ledger state S.
C36_ValidatedBlockApplies ==
    (ret.op = "handleBlock" /\ ret.err = ErrApplyBlock) => ret.cause = ErrInvalidHeight

(***************************************************************************)
(* Properties of the pending pool.                                         *)
(***************************************************************************)
\* C37: no two transactions of the pending pool have a key image in common,
\* and no transaction of the pool carries a key image of the spent set.
C37_PoolSpendable ==
    /\ \A i, j \in 1 .. Len(txPool) :
          i # j => InputKeyImages(txPool[i]) \cap InputKeyImages(txPool[j]) = {}
    /\ \A i \in 1 .. Len(txPool) : InputKeyImages(txPool[i]) \cap spentKeyImages = {}

(***************************************************************************)
(* The two mutexes, Engine.mu and State.mu, under threads that run engine  *)
(* and ledger operations at the same time.  An operation is the sequence   *)
(* of its mutex calls, those of the functions it calls included, on its    *)
(* longest path.                                                           *)
(***************************************************************************)
\* An ApplyBlock that calls into the engine while it holds the ledger mutex.
ApplyBlockLocking_CallsEngine ==
    <<<<"Lock", "state">>, <<"Lock", "engine">>, <<"Unlock", "engine">>,
      <<"Unlock", "state">>>>

\* State.ApplyBlock
ApplyBlockLocking == <<<<"Lock", "state">>, <<"Unlock", "state">>>>

\* The mutex calls of the operations.  CollectVote: GetValidator, then
\* slashValidator's UpdateValidator on a double vote.  ProposeBlock:
\* ComputeStateRoot.  UpdateValidatorSet: GetActiveValidators.
\* ValidateBlock: SelectProposer, then ValidateTransaction.
LockPrograms ==
    [CollectVote |->
        <<<<"Lock", "engine">>, <<"RLock", "state">>, <<"RUnlock", "state">>,
          <<"Lock", "state">>, <<"Unlock", "state">>, <<"Unlock", "engine">>>>,
     ProposeBlock |->
        <<<<"Lock", "engine">>, <<"RLock", "state">>, <<"RUnlock", "state">>,
          <<"Unlock", "engine">>>>,
     VoteForBlock |-> <<<<"RLock", "engine">>, <<"RUnlock", "engine">>>>,
     UpdateValidatorSet |->
        <<<<"Lock", "engine">>, <<"RLock", "state">>, <<"RUnlock", "state">>,
          <<"Unlock", "engine">>>>,
     SelectProposer |-> <<<<"RLock", "engine">>, <<"RUnlock", "engine">>>>,
     ValidateBlock |->
        <<<<"RLock", "engine">>, <<"RUnlock", "engine">>,
          <<"RLock", "state">>, <<"RUnlock", "state">>>>,
     ApplyBlock |-> ApplyBlockLocking,
     ValidateTransaction |-> <<<<"RLock", "state">>, <<"RUnlock", "state">>>>,
     AddValidator |-> <<<<"Lock", "state">>, <<"Unlock", "state">>>>,
     UpdateValidator |-> <<<<"Lock", "state">>, <<"Unlock", "state">>>>]

\* The operations of package ledger.
LedgerOperations == {"ApplyBlock", "ValidateTransaction", "AddValidator", "UpdateValidator"}

\* The mutex of that name.
MutexOf(name) == IF name = "engine" THEN mu ELSE stateMu

\* The thread after the mutex call it was at, holding the given mutexes: at
\* the next call of its operation, or out of the operation.
AfterCall(th, held) ==
    IF th.pc + 1 = Len(LockPrograms[th.op]) THEN NoThreads[1]
    ELSE [th EXCEPT !.pc = @ + 1, !.waiting = FALSE, !.held = held]

\* The next step of thread t: whether it can be taken, and the mutex and the
\* thread after it.  Lock is two steps: the caller announces itself, which
\* stops later RLock calls, then takes the mutex when it is free.
StepOf(t) ==
    LET th == threads[t]
        call == LockPrograms[th.op][th.pc + 1]
        m == MutexOf(call[2])
        without == SelectSeq(th.held, LAMBDA name : name # call[2])
    IN  IF call[1] = "Lock" /\ ~th.waiting
        THEN [enabled |-> TRUE, mutex |-> [m EXCEPT !.waiting = @ + 1],
              thread |-> [th EXCEPT !.waiting = TRUE]]
        ELSE IF call[1] = "Lock"
        THEN [enabled |-> CanLock(m),
              mutex |-> [m EXCEPT !.writer = TRUE, !.waiting = @ - 1],
              thread |-> AfterCall(th, Append(th.held, call[2]))]
        ELSE IF call[1] = "RLock"
        THEN [enabled |-> CanRLock(m), mutex |-> [m EXCEPT !.readers = @ + 1],
              thread |-> AfterCall(th, Append(th.held, call[2]))]
        ELSE IF call[1] = "Unlock"
        THEN [enabled |-> TRUE, mutex |-> [m EXCEPT !.writer = FALSE],
              thread |-> AfterCall(th, without)]
        ELSE [enabled |-> TRUE, mutex |-> [m EXCEPT !.readers = @ - 1],
              thread |-> AfterCall(th, without)]

\* Thread t enters an operation.
ThreadCall(t, op) ==
    /\ threads[t].op = "none"
    /\ threads' = [threads EXCEPT ![t] = [NoThreads[1] EXCEPT !.op = op]]
    /\ UNCHANGED <<ledgerVars, engineVars, dbVars, nodeVars, walletVars, txn,
                   goroutines, poolHistory, stateMu, ret, arg, spentCount, votedFor>>

\* Thread t makes the mutex call it is at.
ThreadStep(t) ==
    /\ threads[t].op # "none"
    /\ LET r == StepOf(t)
           name == LockPrograms[threads[t].op][threads[t].pc + 1][2]
       IN  /\ r.enabled
           /\ threads' = [threads EXCEPT ![t] = r.thread]
           /\ mu' = IF name = "engine" THEN r.mutex ELSE mu
           /\ stateMu' = IF name = "state" THEN r.mutex ELSE stateMu
    /\ UNCHANGED <<ledgerVars, validatorSet, totalStake, votes, currentRound, dbVars,
                   nodeVars, walletVars, txn, goroutines, poolHistory, ret, arg,
                   spentCount, votedFor>>

NextLocks ==
    \/ \E t \in Threads, op \in DOMAIN LockPrograms : ThreadCall(t, op)
    \/ \E t \in Threads : ThreadStep(t)

SpecLocks == InitLedger /\ [][NextLocks]_vars

\* C38: a thread that holds both mutexes took the engine mutex first, no
\* thread inside a ledger operation holds the engine mutex, and whenever
\* threads are inside operations one of them can take its next step.
C38_LockOrderAcyclic ==
    /\ \A t \in Threads :
          /\ threads[t].held \in {<<>>, <<"engine">>, <<"state">>, <<"engine", "state">>}
          /\ threads[t].op \in LedgerOperations =>
                \A i \in 1 .. Len(threads[t].held) : threads[t].held[i] # "engine"
    /\ (\E t \in Threads : threads[t].op # "none") =>
          \E t \in Threads : threads[t].op # "none" /\ StepOf(t).enabled

\* A thread holds both mutexes while another waits in Lock.
C38_Witness ==
    \E t, u \in Threads :
        /\ t # u
        /\ threads[t].held = <<"engine", "state">>
        /\ threads[u].waiting

(***************************************************************************)
(* Further properties of proposer selection and of the UTXO map.           *)
(***************************************************************************)
\* C39: the validator SelectProposer returns is active in the ledger at the
\* time of the call.
C39_ProposerIsActive ==
    (ret.op = "SelectProposer" /\ ret.err = Ok) =>
        /\ validators[ret.validator] # 0
        /\ valCells[validators[ret.validator]].active

\* The number of outputs of the block's transactions.
OutputsOf(block) ==
    LET RECURSIVE count(_)
        count(j) == IF j = 0 THEN 0
                    ELSE count(j - 1) + Len(block.transactions[j].outputs)
    IN  count(Len(block.transactions))

\* C40: an applied block adds to the UTXO map one entry for each output of its
\* transactions and replaces no entry.
C40_OutputsNeverReplaced ==
    [][(ret'.op = "ApplyBlock" /\ ret'.err = Ok) =>
          /\ Cardinality(DOMAIN utxos') = Cardinality(DOMAIN utxos) + OutputsOf(arg')
          /\ \A k \in DOMAIN utxos : utxos'[k] = utxos[k]]_vars

====
